---------------------------- MODULE Spec2Model ----------------------------
(***************************************************************************)
(* A model of mtprotoproxy.py: the client handshake, the direct upstream   *)
(* handshake, the relay workers with the per-user statistics, and the two  *)
(* MTProto frame codecs.                                                    *)
(*                                                                          *)
(* Byte strings are sequences of 0..255.  Python's s[a:b] is Slice(s,a,b). *)
(***************************************************************************)
EXTENDS Integers, Sequences, FiniteSets, TLC

(***************************************************************************)
(* Program constants (mtprotoproxy.py lines 61-101).                       *)
(***************************************************************************)
SKIP_LEN == 8
PREKEY_LEN == 32
KEY_LEN == 32
IV_LEN == 16
HANDSHAKE_LEN == 64
MAGIC_VAL_POS == 56
CBC_PADDING == 16
MIN_MSG_LEN == 12
MAX_MSG_LEN == 16777216
TG_DATACENTER_PORT == 443

MAGIC_VAL_TO_CHECK == <<239, 239, 239, 239>>
PADDING_FILLER == <<4, 0, 0, 0>>

TG_DATACENTERS_V4 ==
    <<"149.154.175.50", "149.154.167.51", "149.154.175.100",
      "149.154.167.91", "149.154.171.5">>

TG_DATACENTERS_V6 ==
    <<"2001:b28:f23d:f001::a", "2001:67c:04e8:f002::a", "2001:b28:f23d:f003::a",
      "2001:67c:04e8:f004::a", "2001:b28:f23f:f005::a">>

(* READ_BUF_SIZE is a configuration value (default 4096); the model runs   *)
(* with a small buffer, so that the bytes of a peer are read in chunks of  *)
(* different sizes.                                                         *)
READ_BUF_SIZE == 2

(***************************************************************************)
(* Bounds of the model.                                                     *)
(***************************************************************************)
MaxSeed == 1        \* client handshakes are built from seeds 0..MaxSeed
MaxDcRaw == 6       \* raw dc values -2..MaxDcRaw (and -32768) are tried
MaxNonce == 1       \* candidate nonces 0..MaxNonce (and the reserved ones) are drawn
MaxFrames == 2      \* a codec writer is called at most this many times
MaxDcBytes == 2     \* the datacenter sends at most this many bytes
MaxCltBytes == 1    \* the client sends at most this many bytes after the handshake

(***************************************************************************)
(* Byte strings.                                                            *)
(***************************************************************************)
Byte == 0..255

Slice(s, a, b) == SubSeq(s, a + 1, b)

Reverse(s) == [i \in 1..Len(s) |-> s[Len(s) + 1 - i]]

Min(a, b) == IF a < b THEN a ELSE b

RECURSIVE XorBits(_, _)
XorBits(a, b) ==
    IF a = 0 THEN b
    ELSE IF b = 0 THEN a
    ELSE ((a + b) % 2) + 2 * XorBits(a \div 2, b \div 2)

xor_table == [a \in Byte |-> [b \in Byte |-> XorBits(a, b)]]

(* a ^ b on bytes *)
Xor(a, b) == xor_table[a][b]

Fill(n, b) == [i \in 1..n |-> b]

(* int.from_bytes(b, "little", signed=True) for a 2-byte string *)
Int16LE(b) ==
    LET v == b[1] + 256 * b[2]
    IN  IF v >= 32768 THEN v - 65536 ELSE v

(* int.to_bytes(v, 2, "little", signed=True) *)
Int16LEBytes(v) ==
    LET u == IF v < 0 THEN v + 65536 ELSE v
    IN  <<u % 256, u \div 256>>

Abs(v) == IF v < 0 THEN -v ELSE v

(***************************************************************************)
(* Library cryptography.  hashlib.sha256 and AES are not code of the       *)
(* program; they are stood in for by fixed deterministic functions of the  *)
(* same shape: a 32-byte digest of the whole input, and a keystream that   *)
(* is a function of (key, iv, byte position) XORed onto the data.  As with *)
(* the real functions, two different secrets can yield keystreams that     *)
(* agree on the four magic bytes and differ on the dc bytes.               *)
(***************************************************************************)
RECURSIVE XorFold(_, _)
XorFold(data, j) ==
    IF j > Len(data) THEN 0 ELSE Xor(data[j], XorFold(data, j + 16))

sha256(data) ==
    [i \in 1..32 |-> Xor((i * 7) % 256, XorFold(data, ((i - 1) % 16) + 1))]

(* create_aes_ctr(key, iv): a fresh CTR cipher object at keystream position 0.
   The iv is kept as its 16 bytes; int.from_bytes(iv, "big") is a bijection. *)
create_aes_ctr(key, iv) == [key |-> key, iv |-> iv, pos |-> 0, fake |-> FALSE]

KeystreamByte(key, iv, p) ==
    Xor(key[(p % 32) + 1], Xor(iv[(p % 16) + 1], (p * 5 + 1) % 256))

(* cipher.encrypt(data) / cipher.decrypt(data) of a CTR object: the bytes *)
ctr_crypt(c, data) ==
    [i \in 1..Len(data) |-> Xor(data[i], KeystreamByte(c.key, c.iv, c.pos + i - 1))]

(* FakeEncryptor / FakeDecryptor of handle_client *)
FakeCipher == [key |-> <<>>, iv |-> <<>>, pos |-> 0, fake |-> TRUE]

(* the data a cipher object returns for encrypt/decrypt *)
Crypt(c, data) == IF c.fake THEN data ELSE ctr_crypt(c, data)

(* the cipher object after it has processed data *)
Advance(c, data) == IF c.fake THEN c ELSE [c EXCEPT !.pos = @ + Len(data)]

NoCipher == [key |-> <<>>, iv |-> <<>>, pos |-> 0, fake |-> FALSE]

(***************************************************************************)
(* State.                                                                   *)
(*   USERS, PREFER_IPV6, FAST_MODE, USE_MIDDLE_PROXY  the configuration     *)
(*   stats   per user: connects, curr_connects_x2, octets                   *)
(*   sess    the sessions (one handle_client call each, with its sockets    *)
(*           and its two relay workers)                                     *)
(*   pipe    a byte stream between a frame writer and a frame reader:       *)
(*           buf, the bytes written and not yet read; eof, feed_eof() was   *)
(*           called on it                                                   *)
(*   wr_seq_no, rd_seq_no   seq_no of the frame writer and the frame reader *)
(*   sent    the write() calls made on the frame writer, in order           *)
(*   reads   the read() calls made on the frame reader, in order            *)
(*   tampered  the bytes of pipe were changed in flight                     *)
(***************************************************************************)
VARIABLES USERS, PREFER_IPV6, FAST_MODE, USE_MIDDLE_PROXY, stats, sess,
          pipe, wr_seq_no, rd_seq_no, sent, reads, tampered

vars == <<USERS, PREFER_IPV6, FAST_MODE, USE_MIDDLE_PROXY, stats, sess,
          pipe, wr_seq_no, rd_seq_no, sent, reads, tampered>>

config == <<USERS, PREFER_IPV6, FAST_MODE, USE_MIDDLE_PROXY>>

codecVars == <<pipe, wr_seq_no, rd_seq_no, sent, reads, tampered>>

sessionVars == <<USERS, PREFER_IPV6, FAST_MODE, USE_MIDDLE_PROXY, stats, sess>>

(* the codec variables while no codec is exercised *)
CodecIdle ==
    /\ pipe = [buf |-> <<>>, eof |-> FALSE]
    /\ wr_seq_no = 0
    /\ rd_seq_no = 0
    /\ sent = <<>>
    /\ reads = <<>>
    /\ tampered = FALSE

(* the user names in configuration (dict insertion) order *)
UserNames == {USERS[i].name : i \in 1..Len(USERS)}

(***************************************************************************)
(* Statistics (init_stats, update_stats).                                   *)
(***************************************************************************)
init_stats(users) ==
    [u \in {users[i].name : i \in 1..Len(users)} |->
        [connects |-> 0, curr_connects_x2 |-> 0, octets |-> 0]]

update_stats(st, user, connects, curr_connects_x2, octets) ==
    [st EXCEPT ![user] =
        [connects |-> @.connects + connects,
         curr_connects_x2 |-> @.curr_connects_x2 + curr_connects_x2,
         octets |-> @.octets + octets]]

(***************************************************************************)
(* handle_handshake: the loop over USERS, on the 64 bytes read.             *)
(***************************************************************************)
HandshakeFailed ==
    [ok |-> FALSE, user |-> "", dc_idx |-> 0, enc_key_and_iv |-> <<>>,
     decryptor |-> NoCipher, encryptor |-> NoCipher]

(* lines 357-360: the client->proxy decryptor for one secret *)
HandshakeDecryptor(handshake, secret) ==
    LET dec_prekey_and_iv == Slice(handshake, SKIP_LEN, SKIP_LEN + PREKEY_LEN + IV_LEN)
        dec_prekey == Slice(dec_prekey_and_iv, 0, PREKEY_LEN)
        dec_iv == Slice(dec_prekey_and_iv, PREKEY_LEN, Len(dec_prekey_and_iv))
        dec_key == sha256(dec_prekey \o secret)
    IN  create_aes_ctr(dec_key, dec_iv)

(* lines 362-365: the proxy->client encryptor for one secret *)
HandshakeEncryptor(handshake, secret) ==
    LET enc_prekey_and_iv ==
            Reverse(Slice(handshake, SKIP_LEN, SKIP_LEN + PREKEY_LEN + IV_LEN))
        enc_prekey == Slice(enc_prekey_and_iv, 0, PREKEY_LEN)
        enc_iv == Slice(enc_prekey_and_iv, PREKEY_LEN, Len(enc_prekey_and_iv))
        enc_key == sha256(enc_prekey \o secret)
    IN  create_aes_ctr(enc_key, enc_iv)

(* line 367 *)
HandshakeDecrypted(handshake, secret) ==
    ctr_crypt(HandshakeDecryptor(handshake, secret), handshake)

(* a variant of MagicMatches that compares three of the four bytes only *)
MagicMatchesThree(decrypted) ==
    Slice(decrypted, MAGIC_VAL_POS, MAGIC_VAL_POS + 3) = Slice(MAGIC_VAL_TO_CHECK, 0, 3)

(* lines 369-370: check_val == MAGIC_VAL_TO_CHECK *)
MagicMatches(decrypted) ==
    Slice(decrypted, MAGIC_VAL_POS, MAGIC_VAL_POS + 4) = MAGIC_VAL_TO_CHECK

(* an index that is the datacenter's number, not its position in the table *)
DcIdxFromOne(decrypted) == Abs(Int16LE(Slice(decrypted, 60, 62)))

(* line 373 *)
DcIdx(decrypted) == Abs(Int16LE(Slice(decrypted, 60, 62))) - 1

(* a variant of UserRejected without the test of the dc index *)
UserRejectedMagicOnly(decrypted) == ~MagicMatches(decrypted)

(* lines 370-375: the two tests that make the loop continue with the next user *)
UserRejected(decrypted) ==
    IF ~MagicMatches(decrypted) THEN TRUE
    ELSE DcIdx(decrypted) = 0

(* lines 377-379: what is returned for the matching user *)
HandshakeAccepted(handshake, user) ==
    LET decryptor == HandshakeDecryptor(handshake, user.secret)
        encryptor == HandshakeEncryptor(handshake, user.secret)
    IN  [ok |-> TRUE, user |-> user.name,
         dc_idx |-> DcIdx(ctr_crypt(decryptor, handshake)),
         enc_key_and_iv |-> encryptor.key \o encryptor.iv,
         decryptor |-> Advance(decryptor, handshake),
         encryptor |-> encryptor]

(* a variant of HandshakeLoop in which the last matching user wins *)
RECURSIVE HandshakeLoopLastWins(_, _, _)
HandshakeLoopLastWins(users, handshake, i) ==
    IF i > Len(users) THEN HandshakeFailed
    ELSE LET later == HandshakeLoopLastWins(users, handshake, i + 1)
         IN  IF later.ok THEN later
             ELSE IF UserRejected(HandshakeDecrypted(handshake, users[i].secret))
                  THEN HandshakeFailed
                  ELSE HandshakeAccepted(handshake, users[i])

(* lines 354-380: for user in USERS, from the i-th user on *)
RECURSIVE HandshakeLoop(_, _, _)
HandshakeLoop(users, handshake, i) ==
    IF i > Len(users) THEN HandshakeFailed
    ELSE IF UserRejected(HandshakeDecrypted(handshake, users[i].secret))
         THEN HandshakeLoop(users, handshake, i + 1)
         ELSE HandshakeAccepted(handshake, users[i])

handle_handshake(users, handshake) == HandshakeLoop(users, handshake, 1)

(***************************************************************************)
(* do_direct_handshake.                                                     *)
(***************************************************************************)
(* lines 389-396: the datacenter table and the index test *)
DcTable == IF PREFER_IPV6 THEN TG_DATACENTERS_V6 ELSE TG_DATACENTERS_V4

DcIdxInRange(dc_idx) == 0 <= dc_idx /\ dc_idx < Len(DcTable)

(* lines 405-413: a random nonce is kept only if it passes the three tests *)
NonceAcceptable(rnd) ==
    /\ Slice(rnd, 0, 1) # <<239>>
    /\ Slice(rnd, 0, 4) \notin {<<72, 69, 65, 68>>, <<80, 79, 83, 84>>,
                                <<71, 69, 84, 32>>, <<238, 238, 238, 238>>}
    /\ Slice(rnd, 4, 8) # <<0, 0, 0, 0>>

(* the key bytes put into the nonce as they are *)
ReusedKeyBytesAsIs(dec_key_and_iv) == dec_key_and_iv

(* line 418: in fast mode the nonce carries the client-side key and iv, reversed *)
ReusedKeyBytes(dec_key_and_iv) == Reverse(dec_key_and_iv)

(* lines 415-420: the nonce after the magic and (fast mode) the key bytes are set *)
DirectNonce(rnd, dec_key_and_iv) ==
    LET withMagic ==
            Slice(rnd, 0, MAGIC_VAL_POS) \o MAGIC_VAL_TO_CHECK
                \o Slice(rnd, MAGIC_VAL_POS + 4, HANDSHAKE_LEN)
    IN  IF dec_key_and_iv # <<>>
        THEN Slice(withMagic, 0, SKIP_LEN) \o ReusedKeyBytes(dec_key_and_iv)
                \o Slice(withMagic, SKIP_LEN + KEY_LEN + IV_LEN, HANDSHAKE_LEN)
        ELSE withMagic

(* lines 422-424: the datacenter->proxy decryptor *)
DirectDecryptor(rnd) ==
    LET dec_key_and_iv == Reverse(Slice(rnd, SKIP_LEN, SKIP_LEN + KEY_LEN + IV_LEN))
    IN  create_aes_ctr(Slice(dec_key_and_iv, 0, KEY_LEN),
                       Slice(dec_key_and_iv, KEY_LEN, KEY_LEN + IV_LEN))

(* lines 426-428: the proxy->datacenter encryptor *)
DirectEncryptor(rnd) ==
    LET enc_key_and_iv == Slice(rnd, SKIP_LEN, SKIP_LEN + KEY_LEN + IV_LEN)
    IN  create_aes_ctr(Slice(enc_key_and_iv, 0, KEY_LEN),
                       Slice(enc_key_and_iv, KEY_LEN, KEY_LEN + IV_LEN))

(* line 430: the 64 bytes written to the datacenter *)
DirectRndEnc(rnd) ==
    Slice(rnd, 0, MAGIC_VAL_POS)
        \o Slice(ctr_crypt(DirectEncryptor(rnd), rnd), MAGIC_VAL_POS, HANDSHAKE_LEN)

(***************************************************************************)
(* Sockets.  One record per TCP connection as asyncio presents it:          *)
(*   inbuf        bytes received from the peer and not yet read             *)
(*   eof          the peer has sent EOF (after inbuf, reads return b"")     *)
(*   lost         the exception connection_lost() set on the reader, or ""  *)
(*   closed       close() was called on the writer                          *)
(*   eof_written  write_eof() was called on the writer                      *)
(*   out          the bytes handed to the writer for the peer               *)
(***************************************************************************)
NewConn ==
    [inbuf |-> <<>>, eof |-> FALSE, lost |-> "", closed |-> FALSE,
     eof_written |-> FALSE, out |-> <<>>]

(* writer.close() *)
Close(conn) == [conn EXCEPT !.closed = TRUE]

(* the exceptions handle_client_wrapper catches (line 631) *)
WrapperCaught == {"IncompleteReadError", "ConnectionResetError"}

(* lines 74-77 *)
TG_MIDDLE_PROXIES_V4 ==
    << <<"149.154.175.50", 8888>>, <<"149.154.162.38", 80>>,
       <<"149.154.175.100", 8888>>, <<"91.108.4.136", 8888>>,
       <<"91.108.56.181", 8888>> >>

(* line 478: the index test of do_middleproxy_handshake *)
MiddleIdxInRange(dc_idx) == 0 <= dc_idx /\ dc_idx < Len(TG_MIDDLE_PROXIES_V4)

(* the exceptions a relay worker catches (lines 617-618) *)
WorkerCaught ==
    {"ConnectionResetError", "BrokenPipeError", "OSError", "AttributeError",
     "IncompleteReadError"}

(* the exceptions a broken connection raises from a read, a drain or a connect *)
ConnErrors == {"ConnectionResetError", "BrokenPipeError", "OSError"}

Dirs == {"tg2clt", "clt2tg"}

(***************************************************************************)
(* A session: one call of handle_client_wrapper and what it creates.        *)
(*   pc  "handshake"  awaiting reader.readexactly(64)            (line 352) *)
(*       "connect"    awaiting asyncio.open_connection           (line 399) *)
(*       "tg_drain"   awaiting writer_tgt.drain()                (line 433) *)
(*       "relay"      handle_client returned with both workers scheduled    *)
(*       "closed"     handle_client(_wrapper) returned after writer.close() *)
(*       "raised"     an exception left handle_client_wrapper               *)
(*   w   per direction, where the relay worker stands:                      *)
(*       "none" no worker, "new" scheduled by ensure_future, "read"         *)
(*       awaiting rd.read, "drain" awaiting wr.drain() after a write,       *)
(*       "eof_drain" awaiting wr.drain() after write_eof, "done"            *)
(*   how per direction, how the worker ended: "eof", "caught", "other"      *)
(*   tg_todo, clt_todo  the bytes the datacenter / the client will send     *)
(*   tg_read  the bytes read from the datacenter so far                     *)
(*   ref_dec, ref_enc, ref_out  the datacenter->client path as the real     *)
(*       cipher objects would make it: the decryptor of do_direct_handshake,*)
(*       the encryptor of handle_handshake, and the bytes they yield        *)
(*   mp  the locals and objects of do_middleproxy_handshake:                *)
(*       port, nonce, crypto_ts; wr_seq_no and rd_seq_no of the frame       *)
(*       writer and reader; encryptor and decryptor (CBC objects, <<>>      *)
(*       while there is none); rd_buf, the buf of the                       *)
(*       CryptoWrappedStreamReader; ans and handshake_ans as read; path,    *)
(*       the awaits the call has passed through                             *)
(***************************************************************************)
NoMiddle ==
    [port |-> 0, nonce |-> <<>>, crypto_ts |-> <<>>, wr_seq_no |-> 0,
     rd_seq_no |-> 0, encryptor |-> <<>>, decryptor |-> <<>>, rd_buf |-> <<>>,
     ans |-> <<>>, handshake_ans |-> <<>>, path |-> <<>>]

NewSession(clt) ==
    [pc |-> "handshake", handshake |-> <<>>, clt_data |-> HandshakeFailed,
     clt |-> clt, tg |-> NewConn, tg_opened |-> FALSE, dc |-> "", rnd |-> <<>>,
     tg_decryptor |-> NoCipher, tg_encryptor |-> NoCipher,
     reader_clt |-> NoCipher, writer_clt |-> NoCipher,
     reader_tg |-> NoCipher, writer_tg |-> NoCipher,
     w |-> [d \in Dirs |-> "none"], how |-> [d \in Dirs |-> ""], exc |-> "",
     tg_todo |-> <<>>, clt_todo |-> <<>>, tg_read |-> <<>>,
     ref_dec |-> NoCipher, ref_enc |-> NoCipher, ref_out |-> <<>>,
     mp |-> NoMiddle]

(* lines 565-567, 581-583: writer_clt.close(); return *)
CloseClient(sn) == [sn EXCEPT !.pc = "closed", !.clt = Close(@)]

(* lines 628-632: an exception raised inside handle_client *)
WrapperRaise(sn, e) ==
    IF e \in WrapperCaught
    THEN [sn EXCEPT !.pc = "closed", !.clt = Close(@), !.exc = e]
    ELSE [sn EXCEPT !.pc = "raised", !.exc = e]

(* lines 383-399 (direct mode): the index test, then open_connection is awaited *)
StartDirect(sn) ==
    IF ~DcIdxInRange(sn.clt_data.dc_idx)
    THEN CloseClient(sn)
    ELSE [sn EXCEPT !.pc = "connect", !.tg_opened = TRUE,
                    !.dc = DcTable[sn.clt_data.dc_idx + 1]]

(* lines 478-482 (middle-proxy mode): the index test, then open_connection
   is awaited *)
StartMiddle(sn) ==
    IF ~MiddleIdxInRange(sn.clt_data.dc_idx)
    THEN CloseClient(sn)
    ELSE LET addr == TG_MIDDLE_PROXIES_V4[sn.clt_data.dc_idx + 1]
         IN  [sn EXCEPT !.pc = "mp_connect", !.tg_opened = TRUE,
                        !.dc = addr[1], !.mp.port = addr[2],
                        !.mp.path = <<"CONNECT">>]

(* lines 564-579: the 64 bytes were read; up to the next await *)
AfterHandshakeRead(sn) ==
    LET handshake == Slice(sn.clt.inbuf, 0, HANDSHAKE_LEN)
        r == handle_handshake(USERS, handshake)
        sn1 == [sn EXCEPT !.handshake = handshake, !.clt_data = r,
                          !.clt.inbuf = Slice(@, HANDSHAKE_LEN, Len(@))]
    IN  IF ~r.ok
        THEN CloseClient(sn1)
        ELSE LET sn2 == [sn1 EXCEPT !.reader_clt = r.decryptor,
                                    !.writer_clt = r.encryptor]
             IN  IF USE_MIDDLE_PROXY THEN StartMiddle(sn2) ELSE StartDirect(sn2)

(* a count that credits the first configured user, whoever connected *)
StatsAfterHandshakeFirstUser(st, r) ==
    IF r.ok THEN update_stats(st, USERS[1].name, 1, 0, 0) ELSE st

(* line 571 *)
StatsAfterHandshake(st, r) ==
    IF r.ok THEN update_stats(st, r.user, 1, 0, 0) ELSE st

(* lines 575-577: what handle_client passes as dec_key_and_iv *)
PassedKeyAndIv(sn) == IF FAST_MODE THEN sn.clt_data.enc_key_and_iv ELSE <<>>

(* a handshake that returns the streams without awaiting the drain *)
AfterConnectNoDrain(sn, candidate) ==
    LET rnd == DirectNonce(candidate, PassedKeyAndIv(sn))
    IN  [sn EXCEPT !.pc = "relay", !.rnd = rnd,
                   !.tg_decryptor = DirectDecryptor(rnd),
                   !.tg_encryptor = Advance(DirectEncryptor(rnd), rnd),
                   !.reader_tg = DirectDecryptor(rnd),
                   !.writer_tg = Advance(DirectEncryptor(rnd), rnd),
                   !.tg.out = @ \o DirectRndEnc(rnd),
                   !.w = [d \in Dirs |-> "new"]]

(* lines 405-433: the connection is open; the nonce is built and written *)
AfterConnect(sn, candidate) ==
    LET rnd == DirectNonce(candidate, PassedKeyAndIv(sn))
    IN  [sn EXCEPT !.pc = "tg_drain", !.rnd = rnd,
                   !.tg_decryptor = DirectDecryptor(rnd),
                   !.tg_encryptor = Advance(DirectEncryptor(rnd), rnd),
                   !.tg.out = @ \o DirectRndEnc(rnd)]

(* lines 587-597: the fake ciphers of fast mode *)
InstallFake(sn) ==
    IF ~USE_MIDDLE_PROXY /\ FAST_MODE
    THEN [sn EXCEPT !.reader_tg = FakeCipher, !.writer_clt = FakeCipher]
    ELSE sn

(* lines 435-438, 585-625: the streams are wrapped, both workers scheduled *)
AfterDrain(sn) ==
    InstallFake([sn EXCEPT !.pc = "relay",
                           !.reader_tg = sn.tg_decryptor,
                           !.writer_tg = sn.tg_encryptor,
                           !.ref_dec = sn.tg_decryptor,
                           !.ref_enc = sn.writer_clt,
                           !.w = [d \in Dirs |-> "new"]])

(***************************************************************************)
(* The environment: configurations and clients.                             *)
(***************************************************************************)
SecretAlice == Fill(16, 0)
SecretBob == Fill(16, 17)
(* differs from SecretAlice in one byte: the two keystreams agree on the   *)
(* magic bytes of a handshake and differ on its dc bytes                    *)
SecretCarol == [i \in 1..16 |-> IF i = 13 THEN 3 ELSE 0]
SecretMallory == Fill(16, 85)

Alice == [name |-> "alice", secret |-> SecretAlice]
Bob == [name |-> "bob", secret |-> SecretBob]
Carol == [name |-> "carol", secret |-> SecretCarol]
Dave == [name |-> "dave", secret |-> SecretAlice]

(* USERS: name -> secret, in insertion order *)
UserConfigs == {<<Alice>>, <<Alice, Bob, Carol>>, <<Carol, Alice, Dave>>}

ClientSecrets == {SecretAlice, SecretBob, SecretCarol, SecretMallory}

DcRaws == (-2..MaxDcRaw) \cup {-32768}

Magics == {MAGIC_VAL_TO_CHECK, <<239, 239, 239, 238>>}

(* the 64 bytes a client encrypts: 8 bytes, prekey, iv, magic, dc, 2 bytes *)
ClientPlain(seed, magic, dcraw) ==
    [i \in 1..SKIP_LEN |-> (seed * 29 + i * 3 + 1) % 256]
        \o [i \in 1..PREKEY_LEN |-> (seed * 37 + i * 11) % 256]
        \o [i \in 1..IV_LEN |-> (seed * 91 + i * 5 + 2) % 256]
        \o magic \o Int16LEBytes(dcraw) \o <<seed, 7>>

(* the handshake a client holding `secret` sends: the first 56 bytes in    *)
(* clear, the last 8 encrypted with the key derived from bytes 8..56        *)
ClientHandshake(secret, seed, magic, dcraw) ==
    LET plain == ClientPlain(seed, magic, dcraw)
    IN  Slice(plain, 0, MAGIC_VAL_POS)
            \o Slice(ctr_crypt(HandshakeDecryptor(plain, secret), plain),
                     MAGIC_VAL_POS, HANDSHAKE_LEN)

ClientHandshakes ==
    {ClientHandshake(secret, seed, magic, dcraw) :
        secret \in ClientSecrets, seed \in 0..MaxSeed, magic \in Magics,
        dcraw \in DcRaws}

(* what a connecting client has done when handle_client starts: sent a     *)
(* handshake, sent part of one and closed, or the connection broke          *)
ClientOpenings ==
    {[NewConn EXCEPT !.inbuf = h] : h \in ClientHandshakes}
    \cup {[NewConn EXCEPT !.inbuf = Slice(ClientHandshake(SecretAlice, 0, MAGIC_VAL_TO_CHECK, 2), 0, n),
                          !.eof = TRUE] : n \in {0, 63}}
    \cup {[NewConn EXCEPT !.lost = e] : e \in ConnErrors}

(* the nonces random.randrange can yield: ordinary ones and reserved ones *)
Nonce(k) == [i \in 1..HANDSHAKE_LEN |-> (k * 53 + i * 17 + 9) % 256]

NonceCandidates ==
    {Nonce(k) : k \in 0..MaxNonce}
    \cup {<<239>> \o Slice(Nonce(0), 1, HANDSHAKE_LEN),
          <<71, 69, 84, 32>> \o Slice(Nonce(0), 4, HANDSHAKE_LEN),
          Slice(Nonce(0), 0, 4) \o <<0, 0, 0, 0>> \o Slice(Nonce(0), 8, HANDSHAKE_LEN)}

(***************************************************************************)
(* The session pipeline: handle_client_wrapper / handle_client.             *)
(***************************************************************************)
Init ==
    /\ USERS \in UserConfigs
    /\ PREFER_IPV6 \in BOOLEAN
    /\ FAST_MODE \in BOOLEAN
    /\ USE_MIDDLE_PROXY = FALSE
    /\ stats = init_stats(USERS)
    /\ \E clt \in ClientOpenings : sess = <<NewSession(clt)>>
    /\ CodecIdle

(* line 352 returns the 64 bytes; handle_client runs to its next await *)
ReadHandshake(s) ==
    /\ sess[s].pc = "handshake"
    /\ sess[s].clt.lost = ""
    /\ Len(sess[s].clt.inbuf) >= HANDSHAKE_LEN
    /\ sess' = [sess EXCEPT ![s] = AfterHandshakeRead(sess[s])]
    /\ stats' = StatsAfterHandshake(stats, sess'[s].clt_data)
    /\ UNCHANGED <<config, codecVars>>

(* line 352 raises: the connection broke, or EOF came before 64 bytes *)
ReadHandshakeFails(s) ==
    /\ sess[s].pc = "handshake"
    /\ \/ /\ sess[s].clt.lost # ""
          /\ sess' = [sess EXCEPT ![s] = WrapperRaise(sess[s], sess[s].clt.lost)]
       \/ /\ sess[s].clt.lost = ""
          /\ Len(sess[s].clt.inbuf) < HANDSHAKE_LEN
          /\ sess[s].clt.eof
          /\ sess' = [sess EXCEPT ![s] = WrapperRaise(sess[s], "IncompleteReadError")]
    /\ UNCHANGED <<config, stats, codecVars>>

(* line 399 returns a connection; lines 405-433 run up to the drain *)
ConnectOk(s) ==
    /\ sess[s].pc = "connect"
    /\ \E candidate \in NonceCandidates :
          /\ NonceAcceptable(candidate)
          /\ sess' = [sess EXCEPT ![s] = AfterConnect(sess[s], candidate)]
    /\ UNCHANGED <<config, stats, codecVars>>

(* lines 400-403: ConnectionRefusedError or OSError; then lines 581-583 *)
ConnectFails(s) ==
    /\ sess[s].pc = "connect"
    /\ sess' = [sess EXCEPT ![s] = CloseClient(sess[s])]
    /\ UNCHANGED <<config, stats, codecVars>>

(* line 433 returns; handle_client runs to its end *)
DrainOk(s) ==
    /\ sess[s].pc = "tg_drain"
    /\ sess' = [sess EXCEPT ![s] = AfterDrain(sess[s])]
    /\ UNCHANGED <<config, stats, codecVars>>

(* line 433 raises because the upstream connection broke *)
DrainFails(s) ==
    /\ sess[s].pc = "tg_drain"
    /\ \E e \in ConnErrors :
          sess' = [sess EXCEPT ![s] = WrapperRaise([sess[s] EXCEPT !.tg.lost = e], e)]
    /\ UNCHANGED <<config, stats, codecVars>>

Next ==
    \E s \in DOMAIN sess :
        \/ ReadHandshake(s)
        \/ ReadHandshakeFails(s)
        \/ ConnectOk(s)
        \/ ConnectFails(s)
        \/ DrainOk(s)
        \/ DrainFails(s)

Spec == Init /\ [][Next]_vars

(***************************************************************************)
(* What a handshake shows under the secret of the i-th configured user,    *)
(* stated from the wire format (used by the properties below only).         *)
(***************************************************************************)
ShownUnder(i, handshake) ==
    LET secret == USERS[i].secret
        key == sha256(SubSeq(handshake, 9, 40) \o secret)
        iv == SubSeq(handshake, 41, 56)
    IN  [j \in 1..64 |-> Xor(handshake[j], KeystreamByte(key, iv, j - 1))]

ShowsMagic(i, handshake) ==
    SubSeq(ShownUnder(i, handshake), 57, 60) = <<239, 239, 239, 239>>

ShownDcIndex(i, handshake) ==
    LET d == ShownUnder(i, handshake)
        v == d[61] + 256 * d[62]
        signed == IF v >= 32768 THEN v - 65536 ELSE v
    IN  (IF signed < 0 THEN -signed ELSE signed) - 1

(* the users the loop of handle_handshake stops at: magic and index other than 0 *)
Matching(handshake) ==
    {i \in 1..Len(USERS) : ShowsMagic(i, handshake) /\ ShownDcIndex(i, handshake) # 0}

FirstOf(S) == CHOOSE i \in S : \A j \in S : i <= j

HandshakeRead(s) == sess[s].handshake # <<>>

(* C1: every handshake that shows the magic and a dc index in 1..N-1 under
   the secret of a configured user is accepted; the user returned is the
   first user in configuration order whose secret shows the magic and an
   index other than 0, with the index shown under that user's secret (so a
   handshake made for u' and unreadable for u is accepted as u', not u);
   a handshake no user matches is refused. *)
C1_HandshakeAccepts ==
    \A s \in DOMAIN sess :
        HandshakeRead(s) =>
            LET h == sess[s].handshake
                r == sess[s].clt_data
            IN  /\ \A i \in 1..Len(USERS) :
                       (ShowsMagic(i, h) /\ ShownDcIndex(i, h) \in 1..(Len(DcTable) - 1))
                           => r.ok
                /\ Matching(h) = {} => ~r.ok
                /\ Matching(h) # {} =>
                       /\ r.ok
                       /\ r.user = USERS[FirstOf(Matching(h))].name
                       /\ r.dc_idx = ShownDcIndex(FirstOf(Matching(h)), h)

(* C1 witness: a handshake that several users match was accepted as the
   first of them, who is not the first configured user, with a dc index of
   the table. *)
C1_Witness ==
    \E s \in DOMAIN sess :
        /\ HandshakeRead(s)
        /\ sess[s].clt_data.ok
        /\ Cardinality(Matching(sess[s].handshake)) >= 2
        /\ FirstOf(Matching(sess[s].handshake)) > 1
        /\ sess[s].clt_data.user = USERS[FirstOf(Matching(sess[s].handshake))].name
        /\ sess[s].clt_data.dc_idx \in 1..(Len(DcTable) - 1)

(* the session was refused before anything was opened upstream *)
RefusedUntouched(s) ==
    /\ sess[s].pc = "closed"
    /\ sess[s].clt.closed
    /\ ~sess[s].tg_opened
    /\ sess[s].tg.out = <<>>
    /\ \A d \in Dirs : sess[s].w[d] = "none"

(* C2: a handshake that shows a magic other than EF EF EF EF under every
   configured secret gets the client socket closed, and no upstream
   connection is attempted for the session. *)
C2_MagicMismatchCloses ==
    \A s \in DOMAIN sess :
        (HandshakeRead(s) /\ \A i \in 1..Len(USERS) : ~ShowsMagic(i, sess[s].handshake))
            => RefusedUntouched(s)

(* C2 witness: such a handshake was read from a client of a three-user
   configuration, and the session is closed. *)
C2_Witness ==
    \E s \in DOMAIN sess :
        /\ HandshakeRead(s)
        /\ Len(USERS) = 3
        /\ \A i \in 1..Len(USERS) : ~ShowsMagic(i, sess[s].handshake)
        /\ sess[s].pc = "closed"

(* C3: a handshake whose magic is valid and whose decoded dc index is 0
   (under every secret that shows the magic) is refused: the client is
   closed, no upstream connection is opened, no relay worker is started. *)
C3_DcIndexZeroRefused ==
    \A s \in DOMAIN sess :
        (/\ HandshakeRead(s)
         /\ \E i \in 1..Len(USERS) : ShowsMagic(i, sess[s].handshake)
         /\ \A i \in 1..Len(USERS) :
                ShowsMagic(i, sess[s].handshake) => ShownDcIndex(i, sess[s].handshake) = 0)
            => (RefusedUntouched(s) /\ ~sess[s].clt_data.ok)

(* C3 witness: a handshake with the magic and dc index 0 was read and the
   session is closed. *)
C3_Witness ==
    \E s \in DOMAIN sess :
        /\ HandshakeRead(s)
        /\ \E i \in 1..Len(USERS) :
              ShowsMagic(i, sess[s].handshake) /\ ShownDcIndex(i, sess[s].handshake) = 0
        /\ \A i \in 1..Len(USERS) :
              ShowsMagic(i, sess[s].handshake) => ShownDcIndex(i, sess[s].handshake) = 0
        /\ sess[s].pc = "closed"

(* the 64 bytes sent upstream, with the last 8 decrypted under the key and
   iv the frame carries in bytes 8..56 *)
UpstreamShown(frame) ==
    [j \in 1..64 |->
        IF j <= 56 THEN frame[j]
        ELSE Xor(frame[j], KeystreamByte(SubSeq(frame, 9, 40), SubSeq(frame, 41, 56), j - 1))]

(* C4 (as claimed): with the single user alice, secret 16 zero bytes, in
   direct mode, a handshake with the magic and dc bytes 01 00 is accepted,
   and once the upstream handshake is written the upstream has received 64
   bytes that show EF EF EF EF at 56..60 and dc index 1 at 60..62. *)
C4_HappyDirectPath ==
    \A s \in DOMAIN sess :
        (/\ USERS = <<Alice>>
         /\ ~USE_MIDDLE_PROXY
         /\ \E seed \in 0..MaxSeed :
               sess[s].handshake = ClientHandshake(SecretAlice, seed, MAGIC_VAL_TO_CHECK, 1))
            => /\ sess[s].clt_data.ok
               /\ sess[s].pc \in {"connect", "tg_drain", "relay"}
               /\ sess[s].pc \in {"tg_drain", "relay"} =>
                      /\ Len(sess[s].tg.out) = 64
                      /\ SubSeq(UpstreamShown(sess[s].tg.out), 57, 60) = <<239, 239, 239, 239>>
                      /\ UpstreamShown(sess[s].tg.out)[61] = 1
                      /\ UpstreamShown(sess[s].tg.out)[62] = 0

(***************************************************************************)
(* Integers as little-endian bytes.                                         *)
(***************************************************************************)
(* int.to_bytes(v, n, "little"), also for negative v with signed=True *)
RECURSIVE ToBytesLE(_, _)
ToBytesLE(v, n) ==
    IF n = 0 THEN <<>> ELSE <<v % 256>> \o ToBytesLE(v \div 256, n - 1)

(* int.from_bytes(b, "little") *)
RECURSIVE FromBytesLE(_)
FromBytesLE(b) ==
    IF b = <<>> THEN 0 ELSE b[1] + 256 * FromBytesLE(Tail(b))

(***************************************************************************)
(* Long byte strings.  The abridged codec is exercised with payloads of up *)
(* to 2^26 bytes; such a string is held as its runs: a sequence of         *)
(* [n |-> count, b |-> byte] with n > 0 and neighbouring runs of different *)
(* bytes, so that equal strings are equal values.                           *)
(***************************************************************************)
Run(n, b) == IF n = 0 THEN <<>> ELSE <<[n |-> n, b |-> b]>>

RECURSIVE BLen(_)
BLen(x) == IF x = <<>> THEN 0 ELSE x[1].n + BLen(Tail(x))

BCat(x, y) ==
    IF x = <<>> THEN y
    ELSE IF y = <<>> THEN x
    ELSE IF x[Len(x)].b = y[1].b
         THEN SubSeq(x, 1, Len(x) - 1)
                \o <<[n |-> x[Len(x)].n + y[1].n, b |-> y[1].b]>> \o Tail(y)
         ELSE x \o y

RECURSIVE BTake(_, _)
BTake(x, k) ==
    IF k = 0 \/ x = <<>> THEN <<>>
    ELSE IF x[1].n <= k THEN BCat(<<x[1]>>, BTake(Tail(x), k - x[1].n))
    ELSE <<[n |-> k, b |-> x[1].b]>>

RECURSIVE BDrop(_, _)
BDrop(x, k) ==
    IF k = 0 \/ x = <<>> THEN x
    ELSE IF x[1].n <= k THEN BDrop(Tail(x), k - x[1].n)
    ELSE <<[n |-> x[1].n - k, b |-> x[1].b]>> \o Tail(x)

RECURSIVE BFromSeq(_)
BFromSeq(q) == IF q = <<>> THEN <<>> ELSE BCat(Run(1, q[1]), BFromSeq(Tail(q)))

(* the first k bytes of x as a sequence of bytes (k small) *)
RECURSIVE BToSeq(_, _)
BToSeq(x, k) ==
    IF k = 0 \/ x = <<>> THEN <<>>
    ELSE <<x[1].b>> \o BToSeq(BDrop(x, 1), k - 1)

(***************************************************************************)
(* MTProtoCompactFrameStreamWriter.write and                                *)
(* MTProtoCompactFrameStreamReader.read (the abridged framing).             *)
(***************************************************************************)
SMALL_PKT_BORDER == 127
LARGE_PKT_BORGER == 16777216

(* a variant of CompactHeader whose short form includes the border value *)
CompactHeaderInclusive(len_div_four) ==
    IF len_div_four <= SMALL_PKT_BORDER THEN <<len_div_four>>
    ELSE <<127>> \o ToBytesLE(len_div_four, 3)

(* lines 261-265: the length bytes put before the data *)
CompactHeader(len_div_four) ==
    IF len_div_four < SMALL_PKT_BORDER THEN <<len_div_four>>
    ELSE <<127>> \o ToBytesLE(len_div_four, 3)

(* lines 251-268: what write(data) does: the bytes handed to stream.write,
   or nothing when it returns 0 or raises (line 256 names the undefined
   variable msg, so the refusal of a misaligned payload raises NameError) *)
CompactFrameWrite(data) ==
    LET len_div_four == BLen(data) \div 4
    IN  IF BLen(data) % 4 # 0
        THEN [status |-> "NameError", wire |-> <<>>]
        ELSE IF len_div_four < LARGE_PKT_BORGER
        THEN [status |-> "written",
              wire |-> BCat(BFromSeq(CompactHeader(len_div_four)), data)]
        ELSE [status |-> "refused", wire |-> <<>>]

(* a reader that takes the length byte as it comes *)
CompactLenByteAsIs(first) == first

(* lines 229-230 *)
CompactLenByte(first) == IF first >= 128 THEN first - 128 ELSE first

(* lines 225-240: read() on the bytes buf of the underlying stream; it
   waits ("blocked") until the bytes of the whole frame are there.  header:
   the length bytes it consumed before the data. *)
CompactFrameRead(buf) ==
    LET blocked == [status |-> "blocked", data |-> <<>>, rest |-> buf,
                    header |-> <<>>]
    IN  IF BLen(buf) < 1 THEN blocked
        ELSE LET short == CompactLenByte(BToSeq(buf, 1)[1])
                 long == (short = 127)
                 hdr == IF long THEN 4 ELSE 1
             IN  IF BLen(buf) < hdr THEN blocked
                 ELSE LET msg_len ==
                              4 * (IF long
                                   THEN FromBytesLE(BToSeq(BDrop(buf, 1), 3))
                                   ELSE short)
                      IN  IF BLen(buf) < hdr + msg_len THEN blocked
                          ELSE [status |-> "ok",
                                data |-> BTake(BDrop(buf, hdr), msg_len),
                                rest |-> BDrop(buf, hdr + msg_len),
                                header |-> BToSeq(buf, hdr)]

(* the payloads the abridged writer is called with *)
CompactPayloads ==
    {Run(n, 85) : n \in {0, 8, 504, 508, 512, 67108860, 67108864}}
    \cup {Run(n, 0) : n \in {4, 508}}
    \cup {Run(256, 127) \o Run(256, 1), BFromSeq(<<170, 187, 204, 221>>),
          BFromSeq(<<1, 2, 3, 4, 5>>)}

(* the session variables while only a codec is exercised *)
SessionsIdle ==
    /\ USERS = <<Alice>>
    /\ PREFER_IPV6 = FALSE
    /\ FAST_MODE = TRUE
    /\ USE_MIDDLE_PROXY = FALSE
    /\ stats = init_stats(USERS)
    /\ sess = <<>>

InitCompact == SessionsIdle /\ CodecIdle

(* writer.write(data) *)
CompactWrite ==
    /\ Len(sent) < MaxFrames
    /\ \E data \in CompactPayloads :
          LET w == CompactFrameWrite(data)
          IN  /\ pipe' = [pipe EXCEPT !.buf = BCat(@, w.wire)]
              /\ sent' = Append(sent, [data |-> data, status |-> w.status,
                                       wire |-> w.wire])
    /\ UNCHANGED <<sessionVars, wr_seq_no, rd_seq_no, reads, tampered>>

(* data = await reader.read(n) *)
CompactRead ==
    /\ CompactFrameRead(pipe.buf).status = "ok"
    /\ pipe' = [pipe EXCEPT !.buf = CompactFrameRead(pipe.buf).rest]
    /\ reads' = Append(reads, [data |-> CompactFrameRead(pipe.buf).data,
                                header |-> CompactFrameRead(pipe.buf).header])
    /\ UNCHANGED <<sessionVars, wr_seq_no, rd_seq_no, sent, tampered>>

NextCompact == CompactWrite \/ CompactRead

SpecCompact == InitCompact /\ [][NextCompact]_vars

(* the write() calls that handed bytes to the stream *)
RECURSIVE Written(_)
Written(log) ==
    IF log = <<>> THEN <<>>
    ELSE IF log[1].status = "written" THEN <<log[1]>> \o Written(Tail(log))
    ELSE Written(Tail(log))

(* every read() so far returned the payload of the write() of the same rank *)
ReadsMatchWrites ==
    /\ Len(reads) <= Len(Written(sent))
    /\ \A k \in 1..Len(reads) : reads[k].data = Written(sent)[k].data

(* the wire bytes of the two forms, for a payload of q*4 bytes *)
ShortForm(q, data) == BCat(BFromSeq(<<q>>), data)

LongForm(q, data) ==
    BCat(BFromSeq(<<127, q % 256, (q \div 256) % 256, (q \div 65536) % 256>>), data)

(* the examples the claim gives *)
CompactExamples(e) ==
    /\ e.data = BFromSeq(<<170, 187, 204, 221>>)
          => e.wire = BFromSeq(<<1, 170, 187, 204, 221>>)
    /\ BLen(e.data) = 512 => BToSeq(e.wire, 4) = <<127, 128, 0, 0>>
    /\ BLen(e.data) = 508 => BToSeq(e.wire, 4) = <<127, 127, 0, 0>>

(* C6 (as claimed): for every payload whose length is a multiple of 4 the
   abridged writer emits [len/4] + payload when len/4 < 0x7f and 7F + the
   3-byte little-endian len/4 + payload otherwise, and the reader returns
   the payloads written. *)
C6_AsClaimed ==
    /\ \A k \in 1..Len(sent) :
          LET e == sent[k]
              q == BLen(e.data) \div 4
          IN  BLen(e.data) % 4 = 0 =>
                  /\ e.status = "written"
                  /\ q < 127 => e.wire = ShortForm(q, e.data)
                  /\ q >= 127 => e.wire = LongForm(q, e.data)
                  /\ CompactExamples(e)
    /\ ReadsMatchWrites

(* C6 (amended): the same for the payloads with len/4 < 2^24; a payload
   with len/4 >= 2^24 is refused and nothing is written for it. *)
C6_CompactRoundTrip ==
    /\ \A k \in 1..Len(sent) :
          LET e == sent[k]
              q == BLen(e.data) \div 4
          IN  BLen(e.data) % 4 = 0 =>
                  /\ q < 16777216 => e.status = "written"
                  /\ q < 127 => e.wire = ShortForm(q, e.data)
                  /\ (q >= 127 /\ q < 16777216) => e.wire = LongForm(q, e.data)
                  /\ q >= 16777216 => (e.status = "refused" /\ e.wire = <<>>)
                  /\ CompactExamples(e)
    /\ ReadsMatchWrites

(* C6 witness: a payload with len/4 = 0x7f and a 4-byte payload were
   written and both were read back. *)
C6_Witness ==
    /\ Len(reads) = 2
    /\ \E k \in 1..2 : BLen(reads[k].data) = 508
    /\ \E k \in 1..2 : BLen(reads[k].data) = 4
    /\ pipe.buf = <<>>

(***************************************************************************)
(* binascii.crc32, on a 32-bit word held as its four little-endian bytes.  *)
(***************************************************************************)
CrcPoly == <<32, 131, 184, 237>>      \* 0xEDB88320, reflected polynomial

XorWord(a, b) == [i \in 1..4 |-> Xor(a[i], b[i])]

ShiftRight1(w) ==
    <<w[1] \div 2 + (w[2] % 2) * 128, w[2] \div 2 + (w[3] % 2) * 128,
      w[3] \div 2 + (w[4] % 2) * 128, w[4] \div 2>>

RECURSIVE CrcBits(_, _)
CrcBits(w, n) ==
    IF n = 0 THEN w
    ELSE CrcBits(IF w[1] % 2 = 1 THEN XorWord(ShiftRight1(w), CrcPoly)
                 ELSE ShiftRight1(w), n - 1)

crc_table == [i \in 0..255 |-> CrcBits(<<i, 0, 0, 0>>, 8)]

CrcUpdate(w, byte) ==
    LET t == crc_table[Xor(w[1], byte)]
    IN  <<Xor(w[2], t[1]), Xor(w[3], t[2]), Xor(w[4], t[3]), t[4]>>

(* the register w after the bytes data[lo..hi], lo <= hi.  The bytes are
   taken in order; the range is halved so that the evaluation stays shallow,
   and the register after the first half is a value before the second half
   starts. *)
RECURSIVE CrcRun(_, _, _, _)
CrcRun(w, data, lo, hi) ==
    IF lo = hi THEN CrcUpdate(w, data[lo])
    ELSE LET mid == (lo + hi) \div 2
         IN  CHOOSE r \in {CrcRun(nw, data, mid + 1, hi) :
                              nw \in {CrcRun(w, data, lo, mid)}} : TRUE

(* int.to_bytes(binascii.crc32(data), 4, "little") *)
crc32(data) ==
    IF Len(data) = 0 THEN Fill(4, 0)
    ELSE XorWord(CrcRun(Fill(4, 255), data, 1, Len(data)), Fill(4, 255))

(***************************************************************************)
(* MTProtoFrameStreamWriter.write and MTProtoFrameStreamReader.read (the   *)
(* intermediate framing with sequence numbers and CRC32).                   *)
(***************************************************************************)
(* int.from_bytes(b, "little") of a 4-byte length word.  Values of 2^30 and
   more are all held as 2^30: they only meet the comparisons with 4 and
   with MAX_MSG_LEN, which they fail alike. *)
MsgLen(b) == IF b[4] >= 64 THEN 1073741824 ELSE FromBytesLE(b)

(* int.from_bytes(b, "little", signed=True) of a 4-byte word *)
SignedFromBytesLE(b) ==
    b[1] + 256 * b[2] + 65536 * b[3]
      + 16777216 * (IF b[4] >= 128 THEN b[4] - 256 ELSE b[4])

(* lines 192-193: the test a length word has to pass *)
MsgLenOk(msg_len) ==
    /\ MIN_MSG_LEN <= msg_len
    /\ msg_len <= MAX_MSG_LEN
    /\ msg_len % Len(PADDING_FILLER) = 0

(* line 288: the pad words after a frame of full_len bytes *)
RECURSIVE Repeat(_, _)
Repeat(q, n) == IF n = 0 THEN <<>> ELSE q \o Repeat(q, n - 1)

FramePadding(full_len) ==
    Repeat(PADDING_FILLER, ((-full_len) % CBC_PADDING) \div Len(PADDING_FILLER))

(* lines 279-290: the bytes write(msg) hands to stream.write *)
FrameBytes(seq_no, msg) ==
    LET len_bytes == ToBytesLE(Len(msg) + 4 + 4 + 4, 4)
        seq_bytes == ToBytesLE(seq_no, 4)
        msg_without_checksum == len_bytes \o seq_bytes \o msg
        full_msg == msg_without_checksum \o crc32(msg_without_checksum)
    IN  full_msg \o FramePadding(Len(full_msg))

(* a reader that takes a pad word for a length word *)
SkipPadsNot(buf) == buf

(* lines 185-190: the pad words at the head of the stream are passed over *)
RECURSIVE SkipPads(_)
SkipPads(buf) ==
    IF Len(buf) >= 4 /\ MsgLen(Slice(buf, 0, 4)) = 4
    THEN SkipPads(Slice(buf, 4, Len(buf)))
    ELSE buf

(* a reader that counts a frame only once its checksum matched *)
SeqAfterFrameLate(seq_no, crc_ok) == IF crc_ok THEN seq_no + 1 ELSE seq_no

(* line 205: the expected sequence number after a frame whose sequence
   number matched, whatever its checksum *)
SeqAfterFrame(seq_no, crc_ok) == seq_no + 1

(* lines 184-215: read() on the bytes buf of the underlying stream with the
   expected sequence number seq_no.  "blocked": a readexactly waits for
   bytes that are not there yet.  For every other status: the data
   returned, the bytes left in the stream, the sequence number afterwards
   and whether feed_eof was called. *)
FrameReadResult(buf, seq_no) ==
    LET b == SkipPads(buf)
        blocked == [status |-> "blocked", data |-> <<>>, rest |-> buf,
                    seq_no |-> seq_no, eof |-> FALSE]
    IN  IF Len(b) < 4 THEN blocked
        ELSE LET msg_len == MsgLen(Slice(b, 0, 4))
             IN  IF ~MsgLenOk(msg_len)
                 THEN [status |-> "bad_len", data |-> <<>>,
                       rest |-> Slice(b, 4, Len(b)), seq_no |-> seq_no,
                       eof |-> TRUE]
                 ELSE IF Len(b) < 8 THEN blocked
                 ELSE IF SignedFromBytesLE(Slice(b, 4, 8)) # seq_no
                 THEN [status |-> "bad_seq", data |-> <<>>,
                       rest |-> Slice(b, 8, Len(b)), seq_no |-> seq_no,
                       eof |-> TRUE]
                 ELSE IF Len(b) < msg_len THEN blocked
                 ELSE LET data == Slice(b, 8, msg_len - 4)
                          checksum_bytes == Slice(b, msg_len - 4, msg_len)
                          crc_ok == crc32(Slice(b, 0, msg_len - 4)) = checksum_bytes
                      IN  IF ~crc_ok
                          THEN [status |-> "bad_crc", data |-> <<>>,
                                rest |-> Slice(b, msg_len, Len(b)),
                                seq_no |-> SeqAfterFrame(seq_no, crc_ok),
                                eof |-> TRUE]
                          ELSE [status |-> "ok", data |-> data,
                                rest |-> Slice(b, msg_len, Len(b)),
                                seq_no |-> SeqAfterFrame(seq_no, crc_ok),
                                eof |-> FALSE]

(* the payloads the intermediate writer is called with: empty, one word,
   two words, and one that is not a whole number of words *)
FramePayloads == {<<>>, <<170, 187, 204, 221>>, <<1, 2, 3, 4, 5, 6, 7, 8>>, <<9>>}

(* the sequence numbers the objects are constructed with: the default, and
   the one of the middle-proxy handshake *)
StartSeqNos == {0, -2}

(* the bits of a byte *)
FlipBits == {1, 2, 4, 8, 16, 32, 64, 128}

(* wire with one bit of its byte at position pos inverted *)
Flipped(wire, pos, bit) == [wire EXCEPT ![pos] = Xor(@, bit)]

InitFrame ==
    /\ SessionsIdle
    /\ pipe = [buf |-> <<>>, eof |-> FALSE]
    /\ wr_seq_no \in StartSeqNos
    /\ rd_seq_no \in StartSeqNos
    /\ sent = <<>>
    /\ reads = <<>>
    /\ tampered = FALSE

(* writer.write(msg) *)
FrameWrite ==
    /\ Len(sent) < MaxFrames
    /\ \E msg \in FramePayloads :
          /\ pipe' = [pipe EXCEPT !.buf = @ \o FrameBytes(wr_seq_no, msg)]
          /\ sent' = Append(sent, [msg |-> msg, seq |-> wr_seq_no,
                                   wire |-> FrameBytes(wr_seq_no, msg),
                                   flip |-> 0, omitted |-> FALSE])
    /\ wr_seq_no' = wr_seq_no + 1
    /\ UNCHANGED <<sessionVars, rd_seq_no, reads, tampered>>

(* writer.write(msg) of a payload of whole words, and one bit of the frame
   is inverted on its way *)
FrameWriteTampered ==
    /\ Len(sent) < MaxFrames
    /\ ~tampered
    /\ \E msg \in {m \in FramePayloads : Len(m) % 4 = 0} :
          \E pos \in 1..Len(FrameBytes(wr_seq_no, msg)), bit \in FlipBits :
              LET wire == Flipped(FrameBytes(wr_seq_no, msg), pos, bit)
              IN  /\ pipe' = [pipe EXCEPT !.buf = @ \o wire]
                  /\ sent' = Append(sent, [msg |-> msg, seq |-> wr_seq_no,
                                           wire |-> wire, flip |-> pos,
                                           omitted |-> FALSE])
    /\ wr_seq_no' = wr_seq_no + 1
    /\ tampered' = TRUE
    /\ UNCHANGED <<sessionVars, rd_seq_no, reads>>

(* writer.write(msg), and the frame is left out of the stream *)
FrameWriteOmitted ==
    /\ Len(sent) < MaxFrames
    /\ ~tampered
    /\ \E msg \in FramePayloads :
          sent' = Append(sent, [msg |-> msg, seq |-> wr_seq_no, wire |-> <<>>,
                                flip |-> 0, omitted |-> TRUE])
    /\ wr_seq_no' = wr_seq_no + 1
    /\ tampered' = TRUE
    /\ UNCHANGED <<sessionVars, pipe, rd_seq_no, reads>>

(* data = await reader.read(n); the caller reads on until EOF is signalled *)
FrameRead ==
    /\ ~pipe.eof
    /\ LET r == FrameReadResult(pipe.buf, rd_seq_no)
       IN  /\ r.status # "blocked"
           /\ pipe' = [buf |-> r.rest, eof |-> r.eof]
           /\ rd_seq_no' = r.seq_no
           /\ reads' = Append(reads, [data |-> r.data, eof |-> r.eof,
                                      status |-> r.status,
                                      seq_before |-> rd_seq_no,
                                      seq_after |-> r.seq_no])
    /\ UNCHANGED <<sessionVars, wr_seq_no, sent, tampered>>

NextFrame == FrameWrite \/ FrameWriteTampered \/ FrameWriteOmitted \/ FrameRead

SpecFrame == InitFrame /\ [][NextFrame]_vars

(* the frames that went into the stream *)
RECURSIVE Live(_)
Live(log) ==
    IF log = <<>> THEN <<>>
    ELSE IF log[1].omitted THEN Live(Tail(log))
    ELSE <<log[1]>> \o Live(Tail(log))

(* the sequence numbers the writer and the reader started with *)
WrStart == IF sent = <<>> THEN wr_seq_no ELSE sent[1].seq

RdStart == IF reads = <<>> THEN rd_seq_no ELSE reads[1].seq_before

(* the bytes after the frame proper are 04 00 00 00 words reaching the next
   multiple of 16 *)
PaddedTo16(e) ==
    /\ Len(e.wire) % 16 = 0
    /\ Len(e.wire) - (12 + Len(e.msg)) < 16
    /\ Slice(e.wire, 12 + Len(e.msg), Len(e.wire))
          = Repeat(<<4, 0, 0, 0>>, (Len(e.wire) - (12 + Len(e.msg))) \div 4)

(* C7: payloads whose lengths are multiples of 4 (12 + |p| <= 2^24),
   written by the intermediate writer from sequence number s, come out of a
   reader started at the same s unchanged and in order; the writer pads
   every frame with 04 00 00 00 words to a multiple of 16 bytes and the
   reader passes over them; no read fails or waits while a frame is left. *)
C7_FrameRoundTrip ==
    /\ \A n \in {0, 4, 16777216 - 12} : MsgLenOk(12 + n)
    /\ (/\ ~tampered
        /\ WrStart = RdStart
        /\ \A k \in 1..Len(sent) : Len(sent[k].msg) % 4 = 0)
       => /\ Len(reads) <= Len(sent)
          /\ ~pipe.eof
          /\ \A k \in 1..Len(sent) : PaddedTo16(sent[k])
          /\ \A k \in 1..Len(reads) :
                /\ reads[k].data = sent[k].msg
                /\ ~reads[k].eof
                /\ reads[k].seq_before = sent[k].seq
          /\ Len(reads) < Len(sent)
                => FrameReadResult(pipe.buf, rd_seq_no).status = "ok"
          /\ Len(reads) = Len(sent)
                => FrameReadResult(pipe.buf, rd_seq_no).status = "blocked"

(* C7 witness: from sequence number -2, a frame followed by three pad words
   and a frame followed by one pad word were written and both read back. *)
C7_Witness ==
    /\ ~tampered
    /\ WrStart = -2
    /\ Len(reads) = 2
    /\ Len(sent) = 2
    /\ reads[1].data = <<1, 2, 3, 4, 5, 6, 7, 8>>
    /\ Len(sent[1].wire) = 32
    /\ reads[2].data = <<>>
    /\ ~reads[2].eof
    /\ Len(sent[2].wire) = 16
    /\ rd_seq_no = 0

(* where the inverted bit of a frame lies *)
FlipInLen(f) == f.flip \in 1..4

FlipInSeq(f) == f.flip \in 5..8

FlipInBody(f) == f.flip \in 9..(12 + Len(f.msg))

FlipInPad(f) == f.flip > 12 + Len(f.msg)

(* a length word as the claim describes the refused ones *)
LenRefused(l) == l < 12 \/ l > 16777216 \/ l % 4 # 0

SignalsEof(r) == r.eof /\ r.data = <<>>

(* what the k-th read has to show, given what was written *)
ReadAsClaimed(k) ==
    LET r == reads[k]
        live == Live(sent)
    IN  /\ r.eof => r.data = <<>>
        /\ r.seq_after \in {r.seq_before, r.seq_before + 1}
        /\ IF k > 1 /\ FlipInPad(live[k - 1])
           THEN SignalsEof(r)
           ELSE /\ k <= Len(live)
                /\ LET f == live[k]
                       l == MsgLen(Slice(f.wire, 0, 4))
                   IN  /\ (l # 4 /\ LenRefused(l))
                            => (SignalsEof(r) /\ r.seq_after = r.seq_before)
                       /\ (~FlipInLen(f) /\ ~LenRefused(l)
                             /\ (f.seq # r.seq_before \/ FlipInSeq(f)))
                            => (SignalsEof(r) /\ r.seq_after = r.seq_before)
                       /\ (~LenRefused(l) /\ f.seq = r.seq_before /\ FlipInBody(f))
                            => (SignalsEof(r) /\ r.seq_after = r.seq_before + 1)
                       /\ (~LenRefused(l) /\ f.seq = r.seq_before
                             /\ (f.flip = 0 \/ FlipInPad(f)))
                            => (/\ ~r.eof
                                /\ r.data = f.msg
                                /\ r.seq_after = r.seq_before + 1)
                       /\ FlipInLen(f) => SignalsEof(r)

(* C8: the intermediate reader feeds EOF and returns empty data, never a
   payload, when the length word is below 12, above 2^24 or not a multiple
   of 4, when the frame's sequence number is not the expected one (as
   after a frame was left out), and when the CRC32 does not match; the
   expected sequence number goes up by one for a frame whose sequence
   number matched (whatever the CRC) and stays otherwise. *)
C8_FrameReaderSignalsEof ==
    /\ MsgLenOk(12) /\ MsgLenOk(16777216)
    /\ \A l \in {0, 8, 13, 14, 16777220, 1073741824} : ~MsgLenOk(l)
    /\ pipe.eof = (reads # <<>> /\ reads[Len(reads)].eof)
    /\ rd_seq_no = (IF reads = <<>> THEN RdStart ELSE reads[Len(reads)].seq_after)
    /\ \A k \in 1..Len(reads) : ReadAsClaimed(k)

(* C8 witness: after a frame read intact, a frame with a bit of its payload
   inverted made the reader signal EOF, its sequence number counted. *)
C8_Witness ==
    /\ Len(reads) = 2
    /\ reads[1].status = "ok"
    /\ reads[2].status = "bad_crc"
    /\ SignalsEof(reads[2])
    /\ FlipInBody(sent[2])
    /\ sent[2].flip \in 9..12
    /\ rd_seq_no = RdStart + 2
    /\ pipe.eof

(***************************************************************************)
(* The relay: the two connect_reader_to_writer workers of a session.        *)
(* "tg2clt" reads the datacenter and writes the client, "clt2tg" reads the  *)
(* client and writes the datacenter.                                         *)
(***************************************************************************)
RdConn(sn, d) == IF d = "tg2clt" THEN sn.tg ELSE sn.clt

WrConn(sn, d) == IF d = "tg2clt" THEN sn.clt ELSE sn.tg

SetRd(sn, d, c) == IF d = "tg2clt" THEN [sn EXCEPT !.tg = c] ELSE [sn EXCEPT !.clt = c]

SetWr(sn, d, c) == IF d = "tg2clt" THEN [sn EXCEPT !.clt = c] ELSE [sn EXCEPT !.tg = c]

RdCipher(sn, d) == IF d = "tg2clt" THEN sn.reader_tg ELSE sn.reader_clt

WrCipher(sn, d) == IF d = "tg2clt" THEN sn.writer_clt ELSE sn.writer_tg

SetCiphers(sn, d, rc, wc) ==
    IF d = "tg2clt" THEN [sn EXCEPT !.reader_tg = rc, !.writer_clt = wc]
    ELSE [sn EXCEPT !.reader_clt = rc, !.writer_tg = wc]

(* the worker is between its first statement and its finally clause *)
Running(sn, d) == sn.w[d] \in {"read", "drain", "eof_drain"}

(* a handler that decrements where the worker returns or catches *)
WorkerFinallyInHandlers(st, user, how) ==
    IF how = "other" THEN st ELSE update_stats(st, user, 0, -1, 0)

(* lines 621-622: finally, however the worker ends *)
WorkerFinally(st, user, how) == update_stats(st, user, 0, -1, 0)

(* a handler that leaves the writer as it is *)
CloseOnCaughtNot(conn) == conn

(* line 619: wr.close() in the except clause *)
CloseOnCaught(conn) == Close(conn)

(* the worker has ended *)
WorkerExit(sn, d, how) == [sn EXCEPT !.w[d] = "done", !.how[d] = how]

(* lines 617-619: exception e was raised in the loop *)
WorkerRaise(sn, d, e) ==
    IF e \in WorkerCaught
    THEN WorkerExit(SetWr(sn, d, CloseOnCaught(WrConn(sn, d))), d, "caught")
    ELSE WorkerExit(sn, d, "other")

(* how a worker ends when e is raised in its loop *)
HowRaised(e) == IF e \in WorkerCaught THEN "caught" ELSE "other"

(* a read that returns the newest byte received *)
ReadChunkNewest(conn) == Slice(conn.inbuf, Len(conn.inbuf) - 1, Len(conn.inbuf))

(* StreamReader.read(n): at most n of the bytes received *)
ReadChunk(conn) == Slice(conn.inbuf, 0, Min(READ_BUF_SIZE, Len(conn.inbuf)))

(* lines 607, 614-615: a chunk is read, decrypted,
   counted, encrypted and written *)
AfterReadData(sn, d) ==
    LET rd == RdConn(sn, d)
        chunk == ReadChunk(rd)
        data == Crypt(RdCipher(sn, d), chunk)
        q == Crypt(WrCipher(sn, d), data)
        sn1 == SetRd(sn, d, [rd EXCEPT !.inbuf = Slice(@, Len(chunk), Len(@))])
        wr == WrConn(sn1, d)
        sn2 == SetWr(sn1, d, [wr EXCEPT !.out = @ \o q])
        sn3 == SetCiphers(sn2, d, Advance(RdCipher(sn, d), chunk),
                          Advance(WrCipher(sn, d), data))
        sn4 == IF d = "tg2clt"
               THEN [sn3 EXCEPT
                       !.tg_read = @ \o chunk,
                       !.ref_out = @ \o ctr_crypt(sn.ref_enc, ctr_crypt(sn.ref_dec, chunk)),
                       !.ref_dec = [@ EXCEPT !.pos = @ + Len(chunk)],
                       !.ref_enc = [@ EXCEPT !.pos = @ + Len(chunk)]]
               ELSE sn3
    IN  [sn4 EXCEPT !.w[d] = "drain"]

(* the first statement of a worker (line 604).  The event loop starts the
   tasks in the order of their ensure_future calls (lines 624-625). *)
WorkerStart(s, d) ==
    /\ sess[s].pc = "relay"
    /\ sess[s].w[d] = "new"
    /\ d = "clt2tg" => sess[s].w["tg2clt"] # "new"
    /\ sess' = [sess EXCEPT ![s].w[d] = "read"]
    /\ stats' = update_stats(stats, sess[s].clt_data.user, 0, 1, 0)
    /\ UNCHANGED <<config, codecVars>>

(* line 607 returns data; lines 613-615; line 616 is awaited *)
WorkerReadData(s, d) ==
    /\ sess[s].w[d] = "read"
    /\ RdConn(sess[s], d).lost = ""
    /\ RdConn(sess[s], d).inbuf # <<>>
    /\ sess' = [sess EXCEPT ![s] = AfterReadData(sess[s], d)]
    /\ stats' = update_stats(stats, sess[s].clt_data.user, 0, 0,
                             Len(ReadChunk(RdConn(sess[s], d))))
    /\ UNCHANGED <<config, codecVars>>

(* line 616 returns *)
WorkerDrainOk(s, d) ==
    /\ sess[s].w[d] = "drain"
    /\ WrConn(sess[s], d).lost = ""
    /\ sess' = [sess EXCEPT ![s].w[d] = "read"]
    /\ UNCHANGED <<config, stats, codecVars>>

(* line 616 raises the exception of the broken connection *)
WorkerDrainFails(s, d) ==
    /\ sess[s].w[d] = "drain"
    /\ WrConn(sess[s], d).lost # ""
    /\ sess' = [sess EXCEPT ![s] = WorkerRaise(sess[s], d, WrConn(sess[s], d).lost)]
    /\ stats' = WorkerFinally(stats, sess[s].clt_data.user,
                             HowRaised(WrConn(sess[s], d).lost))
    /\ UNCHANGED <<config, codecVars>>

(* line 607 returns b"": the peer sent EOF, or the transport was closed on
   our side; line 609 returns; line 610 is awaited *)
WorkerReadEof(s, d) ==
    /\ sess[s].w[d] = "read"
    /\ RdConn(sess[s], d).lost = ""
    /\ RdConn(sess[s], d).inbuf = <<>>
    /\ RdConn(sess[s], d).eof \/ RdConn(sess[s], d).closed
    /\ sess' = [sess EXCEPT ![s] =
                  [SetWr(sess[s], d,
                         IF WrConn(sess[s], d).lost = ""
                         THEN [WrConn(sess[s], d) EXCEPT !.eof_written = TRUE]
                         ELSE WrConn(sess[s], d))
                   EXCEPT !.w[d] = "eof_drain"]]
    /\ UNCHANGED <<config, stats, codecVars>>

(* line 607 returns b"" and line 609 raises: write_eof on a transport whose
   connection is lost raises AttributeError or OSError *)
WorkerWriteEofFails(s, d) ==
    /\ sess[s].w[d] = "read"
    /\ RdConn(sess[s], d).lost = ""
    /\ RdConn(sess[s], d).inbuf = <<>>
    /\ RdConn(sess[s], d).eof \/ RdConn(sess[s], d).closed
    /\ WrConn(sess[s], d).lost # ""
    /\ \E e \in {"AttributeError", "OSError"} :
          /\ sess' = [sess EXCEPT ![s] = WorkerRaise(sess[s], d, e)]
          /\ stats' = WorkerFinally(stats, sess[s].clt_data.user, HowRaised(e))
    /\ UNCHANGED <<config, codecVars>>

(* line 610 returns; lines 611-612 *)
WorkerEofDrainOk(s, d) ==
    /\ sess[s].w[d] = "eof_drain"
    /\ WrConn(sess[s], d).lost = ""
    /\ sess' = [sess EXCEPT ![s] =
                  WorkerExit(SetWr(sess[s], d, Close(WrConn(sess[s], d))), d, "eof")]
    /\ stats' = WorkerFinally(stats, sess[s].clt_data.user, "eof")
    /\ UNCHANGED <<config, codecVars>>

(* line 610 raises the exception of the broken connection *)
WorkerEofDrainFails(s, d) ==
    /\ sess[s].w[d] = "eof_drain"
    /\ WrConn(sess[s], d).lost # ""
    /\ sess' = [sess EXCEPT ![s] = WorkerRaise(sess[s], d, WrConn(sess[s], d).lost)]
    /\ stats' = WorkerFinally(stats, sess[s].clt_data.user,
                             HowRaised(WrConn(sess[s], d).lost))
    /\ UNCHANGED <<config, codecVars>>

(* line 607 raises the exception of the broken connection *)
WorkerReadFails(s, d) ==
    /\ sess[s].w[d] = "read"
    /\ RdConn(sess[s], d).lost # ""
    /\ sess' = [sess EXCEPT ![s] = WorkerRaise(sess[s], d, RdConn(sess[s], d).lost)]
    /\ stats' = WorkerFinally(stats, sess[s].clt_data.user,
                             HowRaised(RdConn(sess[s], d).lost))
    /\ UNCHANGED <<config, codecVars>>

(* an exception that the except clause does not name leaves the loop: only
   the finally clause runs *)
WorkerOtherException(s, d) ==
    /\ Running(sess[s], d)
    /\ sess' = [sess EXCEPT ![s] = WorkerExit(sess[s], d, "other")]
    /\ stats' = WorkerFinally(stats, sess[s].clt_data.user, "other")
    /\ UNCHANGED <<config, codecVars>>

(* the peers.  A connection that breaks during the relay is given one of
   the exceptions of ConnErrors; the workers treat them all alike. *)
RelayErrors == {"ConnectionResetError"}

PeerOpen(conn) == ~conn.closed /\ conn.lost = ""

TgSends(s) ==
    /\ sess[s].pc = "relay"
    /\ PeerOpen(sess[s].tg) /\ ~sess[s].tg.eof
    /\ sess[s].tg_todo # <<>>
    /\ sess' = [sess EXCEPT ![s].tg.inbuf = Append(@, Head(sess[s].tg_todo)),
                            ![s].tg_todo = Tail(@)]
    /\ UNCHANGED <<config, stats, codecVars>>

CltSends(s) ==
    /\ sess[s].pc = "relay"
    /\ PeerOpen(sess[s].clt) /\ ~sess[s].clt.eof
    /\ sess[s].clt_todo # <<>>
    /\ sess' = [sess EXCEPT ![s].clt.inbuf = Append(@, Head(sess[s].clt_todo)),
                            ![s].clt_todo = Tail(@)]
    /\ UNCHANGED <<config, stats, codecVars>>

PeerEof(s, d) ==
    /\ sess[s].pc = "relay"
    /\ PeerOpen(RdConn(sess[s], d)) /\ ~RdConn(sess[s], d).eof
    /\ sess' = [sess EXCEPT ![s] = SetRd(sess[s], d, [RdConn(sess[s], d) EXCEPT !.eof = TRUE])]
    /\ UNCHANGED <<config, stats, codecVars>>

PeerReset(s, d) ==
    /\ sess[s].pc = "relay"
    /\ PeerOpen(RdConn(sess[s], d))
    /\ \E e \in RelayErrors :
          sess' = [sess EXCEPT ![s] = SetRd(sess[s], d, [RdConn(sess[s], d) EXCEPT !.lost = e])]
    /\ UNCHANGED <<config, stats, codecVars>>

(* the sessions as handle_client leaves them, for a client holding secret:
   handshake read, datacenter connected, nonce sent, both workers scheduled *)
EstablishedSessions(secret, seeds, dcraw, tg_todos, clt_todo) ==
    {[AfterDrain(c) EXCEPT !.tg_todo = x, !.clt_todo = clt_todo] :
        x \in tg_todos,
        c \in {AfterConnect(h[2], Nonce(h[1])) :
                 h \in {<<seed, AfterHandshakeRead(NewSession(
                            [NewConn EXCEPT !.inbuf =
                               ClientHandshake(secret, seed, MAGIC_VAL_TO_CHECK, dcraw)]))>> :
                        seed \in seeds}}}

(* the bytes the datacenter sends *)
DcAlphabet == {7, 200}

DcStreams == [1..MaxDcBytes -> DcAlphabet]

CltStream == [i \in 1..MaxCltBytes |-> 16 * i + 1]

InitRelay ==
    /\ USERS = <<Alice, Bob>>
    /\ PREFER_IPV6 = FALSE
    /\ FAST_MODE \in BOOLEAN
    /\ USE_MIDDLE_PROXY = FALSE
    /\ \E sn \in EstablishedSessions(SecretAlice, 0..MaxSeed, 2, DcStreams, CltStream) :
          sess = <<sn>>
    /\ stats = update_stats(init_stats(USERS), "alice", 1, 0, 0)
    /\ CodecIdle

WorkerStep(s, d) ==
    \/ WorkerStart(s, d)
    \/ WorkerReadData(s, d)
    \/ WorkerDrainOk(s, d)
    \/ WorkerDrainFails(s, d)
    \/ WorkerReadEof(s, d)
    \/ WorkerWriteEofFails(s, d)
    \/ WorkerEofDrainOk(s, d)
    \/ WorkerEofDrainFails(s, d)
    \/ WorkerReadFails(s, d)

PeerStep(s) ==
    \/ TgSends(s)
    \/ CltSends(s)
    \/ \E d \in Dirs : PeerEof(s, d) \/ PeerReset(s, d)

NextRelay == \E s \in DOMAIN sess : PeerStep(s) \/ \E d \in Dirs : WorkerStep(s, d)

SpecRelay == InitRelay /\ [][NextRelay]_vars

(* C5: in direct fast mode the datacenter->proxy decryptor of
   do_direct_handshake and the proxy->client encryptor of handle_handshake
   have the same key, IV and keystream position, both are replaced by the
   identity, and for every byte sequence of the datacenter and every
   chunking of it the client is written exactly the bytes that decrypting
   and re-encrypting with the real objects yields: the bytes read from the
   datacenter. *)
C5_FastModeVerbatim ==
    \A s \in DOMAIN sess :
        (sess[s].pc = "relay" /\ FAST_MODE /\ ~USE_MIDDLE_PROXY) =>
            /\ sess[s].tg_decryptor.key = sess[s].clt_data.encryptor.key
            /\ sess[s].tg_decryptor.iv = sess[s].clt_data.encryptor.iv
            /\ sess[s].tg_decryptor.pos = sess[s].clt_data.encryptor.pos
            /\ sess[s].reader_tg = FakeCipher
            /\ sess[s].writer_clt = FakeCipher
            /\ sess[s].ref_dec = sess[s].ref_enc
            /\ sess[s].ref_dec.pos = Len(sess[s].tg_read)
            /\ sess[s].clt.out = sess[s].ref_out
            /\ sess[s].clt.out = sess[s].tg_read
            /\ (sess[s].tg_read \o sess[s].tg.inbuf \o sess[s].tg_todo) \in DcStreams

(* C5 witness: in fast mode the datacenter's bytes C8 07 were read and
   written to the client as they are, and counted. *)
C5_Witness ==
    /\ FAST_MODE
    /\ sess[1].tg_read = <<200, 7>>
    /\ sess[1].clt.out = <<200, 7>>
    /\ sess[1].tg.inbuf = <<>>
    /\ sess[1].w["tg2clt"] = "drain"
    /\ sess[1].tg_todo = <<>>
    /\ stats["alice"].octets = 2

(***************************************************************************)
(* Teardown.                                                                 *)
(***************************************************************************)
InitTeardown ==
    /\ USERS = <<Alice, Bob>>
    /\ PREFER_IPV6 = FALSE
    /\ FAST_MODE \in BOOLEAN
    /\ USE_MIDDLE_PROXY = FALSE
    /\ \E sn \in EstablishedSessions(SecretAlice, {0}, 2,
                                     {[i \in 1..MaxDcBytes |-> 7]}, CltStream) :
          sess = <<sn>>
    /\ stats = update_stats(init_stats(USERS), "alice", 1, 0, 0)
    /\ CodecIdle

(* the event loop runs every callback that is ready, and a transport either
   makes progress or fails: a worker that can take a step takes it *)
FairSpecRelay ==
    /\ InitTeardown
    /\ [][NextRelay]_vars
    /\ \A d \in Dirs : WF_vars(WorkerStep(1, d))

(* a source of the relay has reached EOF or its connection broke *)
SourceEnded(sn) ==
    /\ sn.pc = "relay"
    /\ sn.tg.eof \/ sn.clt.eof \/ sn.tg.lost # "" \/ sn.clt.lost # ""

(* both writers are closed and both workers have ended *)
TornDown(sn) ==
    /\ sn.clt.closed
    /\ sn.tg.closed
    /\ \A d \in Dirs : sn.w[d] = "done"

(* C9: once the relay of a session runs, EOF or a connection error on
   either source leads to both writers closed and both workers ended. *)
C9_TeardownCompletes == SourceEnded(sess[1]) ~> TornDown(sess[1])

(* C9 witness: the datacenter sent EOF, the worker reading it closed the
   client, and the other worker, whose client never sent EOF, ended on the
   EOF of the closed connection and closed the datacenter. *)
C9_Witness ==
    /\ TornDown(sess[1])
    /\ sess[1].tg.eof
    /\ ~sess[1].clt.eof
    /\ sess[1].clt.lost = ""
    /\ sess[1].tg.lost = ""
    /\ sess[1].how["tg2clt"] = "eof"
    /\ sess[1].how["clt2tg"] = "eof"
    /\ sess[1].clt.eof_written

(***************************************************************************)
(* Accounting of current connections, over two sessions.                    *)
(***************************************************************************)
InitStats ==
    /\ USERS = <<Alice, Bob>>
    /\ PREFER_IPV6 = FALSE
    /\ FAST_MODE = TRUE
    /\ USE_MIDDLE_PROXY = FALSE
    /\ \E a \in EstablishedSessions(SecretAlice, {0}, 2, {<<7>>}, <<>>),
          b \in EstablishedSessions(SecretAlice, {1}, 3, {<<>>}, <<>>)
                  \cup EstablishedSessions(SecretBob, {1}, 2, {<<>>}, <<>>) :
          /\ sess = <<a, b>>
          /\ stats = StatsAfterHandshake(
                        StatsAfterHandshake(init_stats(USERS), a.clt_data),
                        b.clt_data)
    /\ CodecIdle

(* the workers of both sessions; the peers of the first session send,
   close and break as they like, of the second session only the client
   closes or breaks *)
NextStats ==
    \/ \E s \in DOMAIN sess, d \in Dirs :
          WorkerStep(s, d) \/ WorkerOtherException(s, d)
    \/ TgSends(1)
    \/ \E d \in Dirs : PeerEof(1, d) \/ PeerReset(1, d)
    \/ PeerEof(2, "clt2tg")
    \/ PeerReset(2, "clt2tg")

SpecStats == InitStats /\ [][NextStats]_vars

(* the sessions of a user *)
SessionsOf(u) ==
    {s \in DOMAIN sess : sess[s].clt_data.ok /\ sess[s].clt_data.user = u}

(* the workers of a user that have started and not ended *)
RunningWorkers(u) == {p \in SessionsOf(u) \X Dirs : Running(sess[p[1]], p[2])}

(* the sessions of a user with both workers running, with one *)
LiveSessions(u) == {s \in SessionsOf(u) : \A d \in Dirs : Running(sess[s], d)}

HalfSessions(u) ==
    {s \in SessionsOf(u) : \E d, e \in Dirs : Running(sess[s], d) /\ ~Running(sess[s], e)}

(* C10: curr_connects_x2 of a user is the number of the user's workers
   that have started and not ended, whichever way a worker ends (EOF, caught
   error, other exception); it is never negative, it is 0 when no worker of
   the user runs, and its half differs from the number of sessions with
   both workers running by at most the number of sessions with one. *)
C10_CurrentConnections ==
    \A u \in UserNames :
        LET c == stats[u].curr_connects_x2
        IN  /\ c = Cardinality(RunningWorkers(u))
            /\ c >= 0
            /\ (LiveSessions(u) \cup HalfSessions(u) = {}) => c = 0
            /\ (c \div 2) - Cardinality(LiveSessions(u))
                  \in 0..Cardinality(HalfSessions(u))
            /\ \A s \in SessionsOf(u), d \in Dirs :
                  sess[s].w[d] = "done" => sess[s].how[d] \in {"eof", "caught", "other"}

(* C10 witness: both sessions are alice's, their four workers have ended,
   by EOF, by a caught error and by another exception, and the counter is
   back at 0. *)
C10_Witness ==
    /\ SessionsOf("alice") = {1, 2}
    /\ \A s \in {1, 2}, d \in Dirs : sess[s].w[d] = "done"
    /\ {sess[s].how[d] : s \in {1, 2}, d \in Dirs} = {"eof", "caught", "other"}
    /\ stats["alice"].curr_connects_x2 = 0
    /\ stats["alice"].connects = 2

(***************************************************************************)
(* Failures before the relay starts.                                        *)
(***************************************************************************)
(* the session ended before any worker was scheduled *)
EndedBeforeRelay(sn) ==
    /\ sn.pc \in {"closed", "raised"}
    /\ \A d \in Dirs : sn.w[d] = "none"

(* C11: any failure before the relay starts closes the client socket: a    *)
(* rejected client handshake, an upstream index out of range, a refused or  *)
(* failed upstream connect, a failed upstream handshake, and any read or    *)
(* write error (incomplete read, connection reset, broken pipe or another   *)
(* OS error) raised while a handshake is in progress.  A client connection  *)
(* that broke by itself counts as closed: its transport has closed it.      *)
C11_FailureBeforeRelayCloses ==
    \A s \in DOMAIN sess :
        EndedBeforeRelay(sess[s]) =>
            sess[s].clt.closed \/ sess[s].clt.lost # ""

(***************************************************************************)
(* Middle-proxy mode: the key schedule and the CBC cipher objects.          *)
(* hashlib.md5, hashlib.sha1 and AES-CBC are library code; they are stood   *)
(* in for by fixed deterministic functions of the same shape: digests of    *)
(* 16 and 20 bytes of the whole input, and a keyed bijection on 16-byte     *)
(* blocks chained as CBC chains them (each block is XORed with the          *)
(* previous ciphertext block, the first with the iv; the object keeps the   *)
(* chaining value between calls).                                           *)
(***************************************************************************)
(* lines 81-86 *)
PROXY_SECRET ==
    <<196, 249, 250, 202, 150, 120, 230, 187, 72, 173, 108, 126, 44, 229, 192, 210,
       68, 48, 100, 93, 85, 74, 221, 235, 85, 65, 158, 3, 77, 166, 39, 33,
       208, 70, 234, 171, 110, 82, 171, 20, 169, 90, 68, 62, 207, 179, 70, 62,
       121, 160, 90, 102, 97, 42, 223, 156, 174, 218, 139, 233, 168, 13, 166, 152,
       111, 176, 166, 255, 56, 122, 248, 77, 136, 239, 58, 100, 19, 113, 62, 92,
       51, 119, 246, 225, 163, 212, 125, 153, 245, 224, 197, 110, 236, 232, 240, 92,
       84, 196, 144, 176, 121, 227, 27, 239, 130, 255, 14, 232, 242, 176, 163, 39,
       86, 210, 73, 197, 242, 18, 105, 129, 108, 183, 6, 27, 38, 93, 178, 18>>

md5(data) ==
    [i \in 1..16 |-> Xor((i * 13 + Len(data)) % 256, XorFold(data, i))]

sha1(data) ==
    [i \in 1..20 |-> Xor((i * 29 + 3) % 256, XorFold(data, ((i + 4) % 16) + 1))]

(* lines 441-459, called without the IPv6 addresses (lines 526-534) *)
get_middleproxy_aes_key_and_iv(nonce_srv, nonce_clt, clt_ts, srv_ip, clt_port, purpose, clt_ip, srv_port, middleproxy_secret) ==
    LET s == nonce_srv \o nonce_clt \o clt_ts \o srv_ip \o clt_port \o purpose
                 \o clt_ip \o srv_port \o middleproxy_secret \o nonce_srv
                 \o nonce_clt
        md5_sum == md5(Slice(s, 1, Len(s)))
        sha1_sum == sha1(s)
    IN  [key |-> Slice(md5_sum, 0, 12) \o sha1_sum,
         iv |-> md5(Slice(s, 2, Len(s)))]

(* lines 20-21, 31-45: a CBC cipher object; iv is the chaining value *)
create_aes_cbc(key, iv) == [key |-> key, iv |-> iv]

XorSeq(a, b) == [i \in 1..Len(a) |-> Xor(a[i], b[i])]

(* the block cipher: a bijection on 16-byte blocks for every 32-byte key *)
BlockEncrypt(key, b) ==
    [i \in 1..16 |-> (Xor(b[(i % 16) + 1], key[i]) + key[i + 16]) % 256]

BlockDecrypt(key, c) ==
    [i \in 1..16 |->
        LET j == ((i + 14) % 16) + 1
        IN  Xor((c[j] - key[j + 16]) % 256, key[j])]

(* encryptor.encrypt(data), len(data) a multiple of 16 *)
RECURSIVE cbc_encrypt(_, _)
cbc_encrypt(c, data) ==
    IF Len(data) < 16 THEN <<>>
    ELSE LET blk == BlockEncrypt(c.key, XorSeq(Slice(data, 0, 16), c.iv))
         IN  blk \o cbc_encrypt([c EXCEPT !.iv = blk], Slice(data, 16, Len(data)))

(* decryptor.decrypt(data), len(data) a multiple of 16 *)
RECURSIVE cbc_decrypt(_, _)
cbc_decrypt(c, data) ==
    IF Len(data) < 16 THEN <<>>
    ELSE LET blk == Slice(data, 0, 16)
         IN  XorSeq(BlockDecrypt(c.key, blk), c.iv)
                 \o cbc_decrypt([c EXCEPT !.iv = blk], Slice(data, 16, Len(data)))

(* the CBC object after it has produced or consumed the ciphertext *)
CbcAdvance(c, ciphertext) ==
    IF Len(ciphertext) < 16 THEN c
    ELSE [c EXCEPT !.iv = Slice(ciphertext, Len(ciphertext) - 16, Len(ciphertext))]

(***************************************************************************)
(* CryptoWrappedStreamReader / CryptoWrappedStreamWriter with a block size. *)
(* A cipher object is a CTR object (create_aes_ctr, FakeCipher) or a CBC    *)
(* object (create_aes_cbc).                                                 *)
(***************************************************************************)
IsCbc(c) == "pos" \notin DOMAIN c

(* decryptor.decrypt(data) *)
CipherDecrypt(c, data) == IF IsCbc(c) THEN cbc_decrypt(c, data) ELSE Crypt(c, data)

(* encryptor.encrypt(data) *)
CipherEncrypt(c, data) == IF IsCbc(c) THEN cbc_encrypt(c, data) ELSE Crypt(c, data)

(* the decryptor after decrypt(data) *)
AfterDecrypt(c, data) == IF IsCbc(c) THEN CbcAdvance(c, data) ELSE Advance(c, data)

(* the encryptor after encrypt(data) *)
AfterEncrypt(c, data) ==
    IF IsCbc(c) THEN CbcAdvance(c, cbc_encrypt(c, data)) ELSE Advance(c, data)

(* lines 122-126: the reader object *)
CryptoReader(decryptor, block_size) ==
    [decryptor |-> decryptor, block_size |-> block_size, buf |-> <<>>]

(* a reader that asks the stream for what is missing, not block-aligned *)
AlignedReadAsAsked(to_read, block_size) == to_read

(* lines 147-150: to_read_block_aligned *)
AlignedRead(to_read, block_size) == to_read + ((-to_read) % block_size)

(* lines 145-155: readexactly(n) on the reader rd over the bytes raw of the
   underlying stream.  "blocked": stream.readexactly waits for bytes that
   are not there yet. *)
CryptoReadExactly(rd, raw, n) ==
    IF n > Len(rd.buf)
    THEN LET to_read_block_aligned == AlignedRead(n - Len(rd.buf), rd.block_size)
         IN  IF Len(raw) < to_read_block_aligned
             THEN [status |-> "blocked", data |-> <<>>, rd |-> rd, raw |-> raw]
             ELSE LET data == Slice(raw, 0, to_read_block_aligned)
                      buf == rd.buf \o CipherDecrypt(rd.decryptor, data)
                  IN  [status |-> "ok", data |-> Slice(buf, 0, n),
                       rd |-> [rd EXCEPT !.buf = Slice(buf, n, Len(buf)),
                                         !.decryptor = AfterDecrypt(@, data)],
                       raw |-> Slice(raw, to_read_block_aligned, Len(raw))]
    ELSE [status |-> "ok", data |-> Slice(rd.buf, 0, n),
          rd |-> [rd EXCEPT !.buf = Slice(@, n, Len(@))], raw |-> raw]

(* lines 167-173: write(data): the bytes handed to stream.write, or the
   refusal *)
CryptoWrite(encryptor, block_size, data) ==
    IF Len(data) % block_size # 0
    THEN [status |-> "refused", wire |-> <<>>, encryptor |-> encryptor]
    ELSE [status |-> "written", wire |-> CipherEncrypt(encryptor, data),
          encryptor |-> AfterEncrypt(encryptor, data)]

(***************************************************************************)
(* MTProtoFrameStreamReader.read over a CryptoWrappedStreamReader: the      *)
(* readexactly calls of lines 184-215 one after the other.                  *)
(***************************************************************************)
FrameOver(status, data, r, seq_no, eof) ==
    [status |-> status, data |-> data, rd |-> r.rd, raw |-> r.raw,
     seq_no |-> seq_no, eof |-> eof]

(* lines 185-190: the first length word that is not a pad word *)
RECURSIVE ReadLenWord(_, _)
ReadLenWord(rd, raw) ==
    LET r == CryptoReadExactly(rd, raw, 4)
    IN  IF r.status = "ok" /\ MsgLen(r.data) = 4
        THEN ReadLenWord(r.rd, r.raw)
        ELSE r

FrameReadOver(rd, raw, seq_no) ==
    LET blocked == [status |-> "blocked", data |-> <<>>, rd |-> rd, raw |-> raw,
                    seq_no |-> seq_no, eof |-> FALSE]
        r1 == ReadLenWord(rd, raw)
        msg_len == MsgLen(r1.data)
        r2 == CryptoReadExactly(r1.rd, r1.raw, 4)
        r3 == CryptoReadExactly(r2.rd, r2.raw, msg_len - 4 - 4 - 4)
        r4 == CryptoReadExactly(r3.rd, r3.raw, 4)
        crc_ok == crc32(r1.data \o r2.data \o r3.data) = r4.data
    IN  IF r1.status # "ok" THEN blocked
        ELSE IF ~MsgLenOk(msg_len)
        THEN FrameOver("bad_len", <<>>, r1, seq_no, TRUE)
        ELSE IF r2.status # "ok" THEN blocked
        ELSE IF SignedFromBytesLE(r2.data) # seq_no
        THEN FrameOver("bad_seq", <<>>, r2, seq_no, TRUE)
        ELSE IF r3.status # "ok" \/ r4.status # "ok" THEN blocked
        ELSE IF ~crc_ok
        THEN FrameOver("bad_crc", <<>>, r4, SeqAfterFrame(seq_no, crc_ok), TRUE)
        ELSE FrameOver("ok", r3.data, r4, SeqAfterFrame(seq_no, crc_ok), FALSE)

(***************************************************************************)
(* do_middleproxy_handshake.                                                *)
(*   pc  "mp_connect"      awaiting asyncio.open_connection      (line 483) *)
(*       "mp_nonce_drain"  awaiting writer_tgt.drain()           (line 499) *)
(*       "mp_nonce_read"   awaiting reader_tgt.read              (line 503) *)
(*       "mp_hs_drain"     awaiting writer_tgt.drain()           (line 544) *)
(*       "mp_hs_read"      awaiting reader_tgt.read(1)           (line 548) *)
(***************************************************************************)
START_SEQ_NO == -2
NONCE_LEN == 16
RPC_NONCE == <<170, 135, 203, 122>>
RPC_HANDSHAKE == <<245, 238, 130, 118>>
CRYPTO_AES == <<1, 0, 0, 0>>
RPC_NONCE_ANS_LEN == 32
RPC_HANDSHAKE_ANS_LEN == 32
RPC_FLAGS == <<0, 0, 0, 0>>
(* b"IPIPPRPDTIME" *)
SENDER_PID == <<73, 80, 73, 80, 80, 82, 80, 68, 84, 73, 77, 69>>
PEER_PID == <<73, 80, 73, 80, 80, 82, 80, 68, 84, 73, 77, 69>>
(* b"CLIENT", b"SERVER" *)
PurposeClient == <<67, 76, 73, 69, 78, 84>>
PurposeServer == <<83, 69, 82, 86, 69, 82>>

(* line 491 *)
key_selector == Slice(PROXY_SECRET, 0, 4)

(* socket.inet_pton(socket.AF_INET, ip) for the addresses of the table and
   the address of this host *)
global_my_ip == "203.0.113.7"
my_port == 50000

inet_pton(ip) ==
    CASE ip = "149.154.175.50" -> <<149, 154, 175, 50>>
      [] ip = "149.154.162.38" -> <<149, 154, 162, 38>>
      [] ip = "149.154.175.100" -> <<149, 154, 175, 100>>
      [] ip = "91.108.4.136" -> <<91, 108, 4, 136>>
      [] ip = "91.108.56.181" -> <<91, 108, 56, 181>>
      [] ip = "203.0.113.7" -> <<203, 0, 113, 7>>

(* lines 526-534: the two key schedules for this connection *)
MiddleKeys(sn, rpc_nonce, purpose) ==
    get_middleproxy_aes_key_and_iv(
        rpc_nonce, sn.mp.nonce, sn.mp.crypto_ts, Reverse(inet_pton(sn.dc)),
        ToBytesLE(my_port, 2), purpose, Reverse(inet_pton(global_my_ip)),
        ToBytesLE(sn.mp.port, 2), PROXY_SECRET)

(* lines 489-499: the connection is open; the RPC_NONCE frame is written
   through the frame writer, sequence number START_SEQ_NO, no cipher *)
MiddleNonceMsg(crypto_ts, nonce) ==
    RPC_NONCE \o key_selector \o CRYPTO_AES \o crypto_ts \o nonce

MpAfterConnect(sn, crypto_ts, nonce) ==
    [sn EXCEPT !.pc = "mp_nonce_drain", !.mp.crypto_ts = crypto_ts,
               !.mp.nonce = nonce,
               !.tg.out = @ \o FrameBytes(START_SEQ_NO, MiddleNonceMsg(crypto_ts, nonce)),
               !.mp.wr_seq_no = START_SEQ_NO + 1,
               !.mp.path = Append(@, "NONCE_SENT")]

(* lines 501-503: the frame reader is made; reader_tgt.read is awaited *)
MpAfterNonceDrain(sn) ==
    [sn EXCEPT !.pc = "mp_nonce_read", !.mp.rd_seq_no = START_SEQ_NO]

(* lines 505-513: the tests the nonce answer has to pass *)
NonceAnsOk(ans) ==
    /\ Len(ans) = RPC_NONCE_ANS_LEN
    /\ Slice(ans, 0, 4) = RPC_NONCE
    /\ Slice(ans, 4, 8) = key_selector
    /\ Slice(ans, 8, 12) = CRYPTO_AES

(* lines 536-543: the ciphers are made, the writer is wrapped and the
   RPC_HANDSHAKE frame is written through it *)
MiddleHandshakeMsg == RPC_HANDSHAKE \o RPC_FLAGS \o SENDER_PID \o PEER_PID

MpSendHandshake(sn, ans) ==
    LET rpc_nonce == Slice(ans, 16, 32)
        enc == MiddleKeys(sn, rpc_nonce, PurposeClient)
        dec == MiddleKeys(sn, rpc_nonce, PurposeServer)
        encryptor == create_aes_cbc(enc.key, enc.iv)
        decryptor == create_aes_cbc(dec.key, dec.iv)
        w == CryptoWrite(encryptor, 16, FrameBytes(sn.mp.wr_seq_no, MiddleHandshakeMsg))
    IN  [sn EXCEPT !.pc = "mp_hs_drain", !.mp.encryptor = w.encryptor,
                   !.mp.decryptor = decryptor,
                   !.tg.out = @ \o w.wire,
                   !.mp.wr_seq_no = @ + 1,
                   !.mp.path = Append(@, "HANDSHAKE_SENT")]

(* lines 503-543: reader_tgt.read returned; r is what the frame reader made
   of the bytes of the connection *)
MpAfterNonceAns(sn, r) ==
    LET sn1 == [sn EXCEPT !.tg.inbuf = r.rest, !.tg.eof = @ \/ r.eof,
                          !.mp.rd_seq_no = r.seq_no, !.mp.ans = r.data]
    IN  IF NonceAnsOk(r.data) THEN MpSendHandshake(sn1, r.data) ELSE CloseClient(sn1)

(* lines 546-548: the reader is wrapped; reader_tgt.read(1) is awaited *)
MpAfterHandshakeDrain(sn) == [sn EXCEPT !.pc = "mp_hs_read"]

(* a handshake that takes any 32-byte RPC_HANDSHAKE answer *)
HandshakeAnsAnyPeer(ans) ==
    /\ Len(ans) = RPC_HANDSHAKE_ANS_LEN
    /\ Slice(ans, 0, 4) = RPC_HANDSHAKE

(* lines 549-555: the tests the handshake answer has to pass *)
HandshakeAnsOk(ans) ==
    /\ Len(ans) = RPC_HANDSHAKE_ANS_LEN
    /\ Slice(ans, 0, 4) = RPC_HANDSHAKE
    /\ Slice(ans, 20, 32) = SENDER_PID

(* lines 585-625 in middle-proxy mode: the client streams are wrapped in
   the abridged codec and both workers are scheduled *)
MpStartRelay(sn) ==
    [sn EXCEPT !.pc = "relay", !.w = [d \in Dirs |-> "new"],
               !.mp.path = Append(@, "RELAY")]

(* lines 548-560: reader_tgt.read(1) returned; r is what the frame reader
   over the CryptoWrappedStreamReader made of the bytes of the connection *)
MpAfterHandshakeAns(sn, r) ==
    LET sn1 == [sn EXCEPT !.tg.inbuf = r.raw, !.tg.eof = @ \/ r.eof,
                          !.mp.rd_seq_no = r.seq_no, !.mp.handshake_ans = r.data,
                          !.mp.rd_buf = r.rd.buf, !.mp.decryptor = r.rd.decryptor]
    IN  IF HandshakeAnsOk(r.data) THEN MpStartRelay(sn1) ELSE CloseClient(sn1)

(***************************************************************************)
(* The middle proxy as the peer of do_middleproxy_handshake.                *)
(***************************************************************************)
(* random.randrange: the nonces the proxy can draw *)
MiddleNonce(k) == [i \in 1..NONCE_LEN |-> (k * 41 + i * 19 + 5) % 256]

MiddleNonces == {MiddleNonce(k) : k \in 0..MaxNonce}

(* int(time.time()) % 256**4 as 4 bytes *)
CryptoTimes == {<<21, 205, 91, 7>>}

ServerNonce == [i \in 1..NONCE_LEN |-> (i * 23 + 2) % 256]

ServerPid == <<83, 82, 86, 80, 73, 68, 48, 48, 48, 48, 48, 49>>

(* a frame as the middle proxy sends it before the ciphers are in place:
   without pad words *)
FrameBare(seq_no, msg) == Slice(FrameBytes(seq_no, msg), 0, Len(msg) + 12)

(* the bytes of the frame itself with one bit of its checksum flipped *)
FrameBadCrc(seq_no, msg) ==
    LET f == FrameBare(seq_no, msg)
    IN  [f EXCEPT ![Len(f)] = Xor(@, 1)] \o FramePadding(Len(f))

NonceAnsGood(sn) ==
    RPC_NONCE \o key_selector \o CRYPTO_AES \o sn.mp.crypto_ts \o ServerNonce

(* the messages a peer can answer the RPC_NONCE frame with *)
NonceAnsMsgs(sn) ==
    LET good == NonceAnsGood(sn)
    IN  {good,
         RPC_HANDSHAKE \o Slice(good, 4, 32),
         Slice(good, 0, 4) \o <<0, 0, 0, 0>> \o Slice(good, 8, 32),
         Slice(good, 0, 8) \o <<2, 0, 0, 0>> \o Slice(good, 12, 32),
         Slice(good, 0, 28),
         good \o <<0, 0, 0, 0>>}

(* the bytes a peer can answer the RPC_NONCE frame with: each message in a
   frame numbered START_SEQ_NO, and the good message in a frame with pad
   words, with another sequence number, with a wrong checksum and with an
   impossible length word *)
NonceAnswers(sn) ==
    LET good == NonceAnsGood(sn)
    IN  {FrameBare(START_SEQ_NO, m) : m \in NonceAnsMsgs(sn)}
        \cup {FrameBytes(START_SEQ_NO, good),
              FrameBare(0, good),
              FrameBadCrc(START_SEQ_NO, good),
              ToBytesLE(8, 4) \o Slice(FrameBare(START_SEQ_NO, good), 4, 44)}

HandshakeAnsGood == RPC_HANDSHAKE \o RPC_FLAGS \o ServerPid \o SENDER_PID

(* the messages a peer can answer the RPC_HANDSHAKE frame with *)
HandshakeAnsMsgs ==
    {HandshakeAnsGood,
     RPC_NONCE \o Slice(HandshakeAnsGood, 4, 32),
     Slice(HandshakeAnsGood, 0, 20) \o ServerPid,
     Slice(HandshakeAnsGood, 0, 28),
     HandshakeAnsGood \o <<0, 0, 0, 0>>}

(* the cipher the middle proxy encrypts with: the key schedule of purpose
   SERVER for the nonce it sent *)
ServerEncryptor(sn) ==
    LET k == MiddleKeys(sn, ServerNonce, PurposeServer)
    IN  create_aes_cbc(k.key, k.iv)

(* the bytes a peer can answer the RPC_HANDSHAKE frame with: each message
   in a frame numbered -1 and encrypted; the good message with another
   sequence number, with a wrong checksum, encrypted under the other key,
   and not encrypted at all *)
HandshakeAnswers(sn) ==
    LET c == ServerEncryptor(sn)
        k == MiddleKeys(sn, ServerNonce, PurposeClient)
    IN  {cbc_encrypt(c, FrameBytes(START_SEQ_NO + 1, m)) : m \in HandshakeAnsMsgs}
        \cup {cbc_encrypt(c, FrameBytes(START_SEQ_NO, HandshakeAnsGood)),
              cbc_encrypt(c, FrameBadCrc(START_SEQ_NO + 1, HandshakeAnsGood)),
              cbc_encrypt(create_aes_cbc(k.key, k.iv),
                          FrameBytes(START_SEQ_NO + 1, HandshakeAnsGood)),
              FrameBytes(START_SEQ_NO + 1, HandshakeAnsGood)}

(***************************************************************************)
(* The actions of do_middleproxy_handshake.                                 *)
(***************************************************************************)
(* line 483 returns a connection; lines 489-499 run up to the drain *)
MpConnectOk(s) ==
    /\ sess[s].pc = "mp_connect"
    /\ \E crypto_ts \in CryptoTimes, nonce \in MiddleNonces :
          sess' = [sess EXCEPT ![s] = MpAfterConnect(sess[s], crypto_ts, nonce)]
    /\ UNCHANGED <<config, stats, codecVars>>

(* lines 484-487: ConnectionRefusedError or OSError; then lines 581-583 *)
MpConnectFails(s) ==
    /\ sess[s].pc = "mp_connect"
    /\ sess' = [sess EXCEPT ![s] = CloseClient(sess[s])]
    /\ UNCHANGED <<config, stats, codecVars>>

(* line 499 returns *)
MpNonceDrainOk(s) ==
    /\ sess[s].pc = "mp_nonce_drain"
    /\ sess' = [sess EXCEPT ![s] = MpAfterNonceDrain(sess[s])]
    /\ UNCHANGED <<config, stats, codecVars>>

(* line 499 or line 544 raises because the upstream connection broke *)
MpDrainFails(s) ==
    /\ sess[s].pc \in {"mp_nonce_drain", "mp_hs_drain"}
    /\ \E e \in ConnErrors :
          sess' = [sess EXCEPT ![s] = WrapperRaise([sess[s] EXCEPT !.tg.lost = e], e)]
    /\ UNCHANGED <<config, stats, codecVars>>

(* the peer answers the RPC_NONCE frame; line 503 returns *)
MpNonceAnswered(s) ==
    /\ sess[s].pc = "mp_nonce_read"
    /\ \E a \in NonceAnswers(sess[s]) :
          \E r \in {FrameReadResult(sess[s].tg.inbuf \o a, sess[s].mp.rd_seq_no)} :
              /\ r.status # "blocked"
              /\ sess' = [sess EXCEPT ![s] = MpAfterNonceAns(sess[s], r)]
    /\ UNCHANGED <<config, stats, codecVars>>

(* line 503 or line 548 raises: the peer closed the connection before a
   whole frame came (IncompleteReadError), or the connection broke *)
MpReadFails(s) ==
    /\ sess[s].pc \in {"mp_nonce_read", "mp_hs_read"}
    /\ \/ sess' = [sess EXCEPT ![s] =
                     WrapperRaise([sess[s] EXCEPT !.tg.eof = TRUE], "IncompleteReadError")]
       \/ \E e \in ConnErrors :
             sess' = [sess EXCEPT ![s] = WrapperRaise([sess[s] EXCEPT !.tg.lost = e], e)]
    /\ UNCHANGED <<config, stats, codecVars>>

(* line 544 returns *)
MpHandshakeDrainOk(s) ==
    /\ sess[s].pc = "mp_hs_drain"
    /\ sess' = [sess EXCEPT ![s] = MpAfterHandshakeDrain(sess[s])]
    /\ UNCHANGED <<config, stats, codecVars>>

(* the peer answers the RPC_HANDSHAKE frame; line 548 returns *)
MpHandshakeAnswered(s) ==
    /\ sess[s].pc = "mp_hs_read"
    /\ \E a \in HandshakeAnswers(sess[s]) :
          \E r \in {FrameReadOver(CryptoReader(sess[s].mp.decryptor, 16),
                                   sess[s].tg.inbuf \o a, sess[s].mp.rd_seq_no)} :
              /\ r.status # "blocked"
              /\ sess' = [sess EXCEPT ![s] = MpAfterHandshakeAns(sess[s], r)]
    /\ UNCHANGED <<config, stats, codecVars>>

MiddleStep(s) ==
    \/ MpConnectOk(s)
    \/ MpConnectFails(s)
    \/ MpNonceDrainOk(s)
    \/ MpDrainFails(s)
    \/ MpNonceAnswered(s)
    \/ MpReadFails(s)
    \/ MpHandshakeDrainOk(s)
    \/ MpHandshakeAnswered(s)

(***************************************************************************)
(* A session from its first byte on, in direct and in middle-proxy mode.    *)
(***************************************************************************)
SessionOpenings ==
    {[NewConn EXCEPT !.inbuf = ClientHandshake(SecretAlice, 0, MAGIC_VAL_TO_CHECK, dcraw)] :
        dcraw \in DcRaws}
    \cup {[NewConn EXCEPT !.inbuf = ClientHandshake(secret, 0, MAGIC_VAL_TO_CHECK, 2)] :
            secret \in {SecretBob, SecretMallory}}
    \cup {[NewConn EXCEPT !.inbuf = Slice(ClientHandshake(SecretAlice, 0, MAGIC_VAL_TO_CHECK, 2), 0, 63),
                          !.eof = TRUE],
          [NewConn EXCEPT !.lost = "ConnectionResetError"]}

InitSession ==
    /\ USERS = <<Alice, Bob>>
    /\ PREFER_IPV6 \in BOOLEAN
    /\ FAST_MODE \in BOOLEAN
    /\ USE_MIDDLE_PROXY \in BOOLEAN
    /\ stats = init_stats(USERS)
    /\ \E clt \in SessionOpenings :
          sess = <<[NewSession(clt) EXCEPT !.tg_todo = <<7>>, !.clt_todo = <<17>>]>>
    /\ CodecIdle

NextSession ==
    \/ Next
    \/ \E s \in DOMAIN sess : MiddleStep(s)
    \/ ~USE_MIDDLE_PROXY /\ NextRelay

SpecSession == InitSession /\ [][NextSession]_vars

(***************************************************************************)
(* The middle-proxy handshake as seen from the wire, stated from the wire   *)
(* format (used by the properties below only).                              *)
(***************************************************************************)
MiddlePath == <<"CONNECT", "NONCE_SENT", "HANDSHAKE_SENT", "RELAY">>

IsPrefix(p, q) == Len(p) <= Len(q) /\ p = SubSeq(q, 1, Len(p))

Passed(sn, step) == \E i \in DOMAIN sn.mp.path : sn.mp.path[i] = step

(* the first 48 bytes written upstream are a plain frame numbered -2 whose
   message starts with the RPC_NONCE tag *)
NonceFrameOnWire(sn) ==
    LET f == FrameReadResult(Slice(sn.tg.out, 0, 48), -2)
    IN  /\ Len(sn.tg.out) >= 48
        /\ f.status = "ok"
        /\ Len(f.data) = 32
        /\ Slice(f.data, 0, 4) = <<170, 135, 203, 122>>
        /\ Slice(f.data, 4, 8) = Slice(PROXY_SECRET, 0, 4)
        /\ Slice(f.data, 8, 12) = <<1, 0, 0, 0>>

(* the key selector and the nonce the proxy sent, read back from the wire *)
SentKeySelector(sn) == Slice(sn.tg.out, 12, 16)

SentNonce(sn) == Slice(sn.tg.out, 24, 40)

(* the nonce answer passes the three tests of the claim *)
NonceAnswerValid(sn) ==
    /\ Len(sn.mp.ans) = 32
    /\ Slice(sn.mp.ans, 0, 4) = <<170, 135, 203, 122>>
    /\ Slice(sn.mp.ans, 4, 8) = SentKeySelector(sn)
    /\ Slice(sn.mp.ans, 8, 12) = <<1, 0, 0, 0>>

(* bytes 48..96 written upstream, decrypted with the key the middle proxy
   derives for purpose CLIENT from the two nonces *)
HandshakeFrameDecrypted(sn) ==
    LET k == get_middleproxy_aes_key_and_iv(
                 Slice(sn.mp.ans, 16, 32), SentNonce(sn), sn.mp.crypto_ts,
                 Reverse(inet_pton(sn.dc)), ToBytesLE(my_port, 2),
                 PurposeClient, Reverse(inet_pton(global_my_ip)),
                 ToBytesLE(sn.mp.port, 2), PROXY_SECRET)
    IN  cbc_decrypt(create_aes_cbc(k.key, k.iv), Slice(sn.tg.out, 48, 96))

(* the second 48 bytes written upstream are the encryption of a frame
   numbered -1 whose message starts with the RPC_HANDSHAKE tag *)
HandshakeFrameOnWire(sn) ==
    LET f == FrameReadResult(HandshakeFrameDecrypted(sn), -1)
    IN  /\ Len(sn.tg.out) = 96
        /\ f.status = "ok"
        /\ Len(f.data) = 32
        /\ Slice(f.data, 0, 4) = <<245, 238, 130, 118>>
        /\ FrameReadResult(Slice(sn.tg.out, 48, 96), -1).status # "ok"

(* the SENDER_PID the proxy sent, read back from the wire *)
SentSenderPid(sn) == Slice(HandshakeFrameDecrypted(sn), 16, 28)

(* the handshake answer passes the three tests of the claim *)
HandshakeAnswerValid(sn) ==
    /\ Len(sn.mp.handshake_ans) = 32
    /\ Slice(sn.mp.handshake_ans, 0, 4) = <<245, 238, 130, 118>>
    /\ Slice(sn.mp.handshake_ans, 20, 32) = SentSenderPid(sn)

CbcInstalled(sn) == sn.mp.encryptor # <<>> \/ sn.mp.decryptor # <<>>

Relays(sn) == sn.pc = "relay" \/ \E d \in Dirs : sn.w[d] # "none"

(* C12: do_middleproxy_handshake reaches RELAY only through CONNECT,        *)
(* NONCE_SENT and HANDSHAKE_SENT in this order, and only if the nonce       *)
(* answer has exactly 32 bytes, the tag RPC_NONCE, the key selector that    *)
(* was sent and the schema CRYPTO_AES, and the handshake answer has exactly *)
(* 32 bytes, the tag RPC_HANDSHAKE and a peer PID equal to the SENDER_PID   *)
(* that was sent.  The RPC_NONCE frame is written unencrypted with sequence *)
(* number -2, the CBC ciphers are installed only after the nonce answer was *)
(* validated, and the RPC_HANDSHAKE frame is written CBC-encrypted with     *)
(* sequence number -1.  After a failed validation the call returns failure  *)
(* and the session never relays.                                            *)
C12_MiddleHandshakeOrder ==
    USE_MIDDLE_PROXY =>
        \A s \in DOMAIN sess :
            LET sn == sess[s]
            IN  /\ IsPrefix(sn.mp.path, MiddlePath)
                /\ Relays(sn) =>
                      /\ sn.mp.path = MiddlePath
                      /\ NonceAnswerValid(sn)
                      /\ HandshakeAnswerValid(sn)
                /\ Passed(sn, "NONCE_SENT") => NonceFrameOnWire(sn)
                /\ ~Passed(sn, "HANDSHAKE_SENT") => Len(sn.tg.out) <= 48
                /\ CbcInstalled(sn) => NonceAnswerValid(sn)
                /\ Passed(sn, "HANDSHAKE_SENT") =>
                      CbcInstalled(sn) /\ HandshakeFrameOnWire(sn)
                /\ sn.pc \in {"closed", "raised"} => ~Relays(sn)
                /\ (sn.mp.ans # <<>> /\ ~NonceAnswerValid(sn)) =>
                      sn.pc = "closed" /\ ~CbcInstalled(sn)
                /\ (sn.mp.handshake_ans # <<>> /\ ~HandshakeAnswerValid(sn)) =>
                      sn.pc = "closed"

(* a session relays after a middle-proxy handshake *)
C12_Witness ==
    /\ USE_MIDDLE_PROXY
    /\ \E s \in DOMAIN sess :
          /\ sess[s].pc = "relay"
          /\ sess[s].mp.path = MiddlePath
          /\ Len(sess[s].tg.out) = 96

(***************************************************************************)
(* The datacenter index of a session.                                       *)
(***************************************************************************)
(* the table the session's mode chooses its upstream address from *)
UpstreamTable ==
    IF USE_MIDDLE_PROXY
    THEN [i \in 1..5 |-> TG_MIDDLE_PROXIES_V4[i][1]]
    ELSE IF PREFER_IPV6 THEN TG_DATACENTERS_V6 ELSE TG_DATACENTERS_V4

(* bytes 57..62 of a handshake as the secret of the i-th configured user
   shows them: the magic and the dc bytes *)
ShownTail(i, h) ==
    CHOOSE x \in {[j \in 57..62 |-> Xor(h[j], KeystreamByte(key, SubSeq(h, 41, 56), j - 1))] :
                    key \in {sha256(SubSeq(h, 9, 40) \o USERS[i].secret)}} : TRUE

(* the dc indexes a handshake shows under the secrets that show the magic *)
ShownIndexes(h) ==
    {Abs(Int16LE(<<t[61], t[62]>>)) - 1 :
        t \in {x \in {ShownTail(i, h) : i \in 1..Len(USERS)} :
                  <<x[57], x[58], x[59], x[60]>> = <<239, 239, 239, 239>>}}

(* an upstream connection was attempted, is open or was written to *)
UpstreamAttempted(sn) ==
    \/ sn.tg_opened
    \/ sn.dc # ""
    \/ sn.tg.out # <<>>
    \/ sn.pc \in {"connect", "tg_drain", "mp_connect", "mp_nonce_drain",
                  "mp_nonce_read", "mp_hs_drain", "mp_hs_read", "relay"}
    \/ \E d \in Dirs : sn.w[d] # "none"

(* C14: every session for which an upstream connection is attempted (hence  *)
(* every relaying session) has a dc_index in [1, len(table) - 1], table     *)
(* being the address table of the session's mode, and the address is the    *)
(* table's entry at that index; index 0 and every index outside the table   *)
(* (-1, from raw dc 0, and any index >= the table's length) never select an *)
(* upstream address, in direct and in middle-proxy mode.                    *)
C14_DcIndexInTable ==
    \A s \in DOMAIN sess :
        LET sn == sess[s]
            h == sn.handshake
            shown == IF h = <<>> THEN {} ELSE ShownIndexes(h)
        IN  /\ UpstreamAttempted(sn) =>
                /\ HandshakeRead(s)
                /\ sn.clt_data.ok
                /\ sn.clt_data.dc_idx \in 1..(Len(UpstreamTable) - 1)
                /\ sn.clt_data.dc_idx \in shown
                /\ sn.dc = UpstreamTable[sn.clt_data.dc_idx + 1]
            /\ (HandshakeRead(s) /\ shown \cap (1..(Len(UpstreamTable) - 1)) = {}) =>
                ~UpstreamAttempted(sn) /\ sn.pc = "closed"

(* C14 witnesses: a middle-proxy session was connected with the last index  *)
(* of the table, and a handshake showing index -1 was read and refused.     *)
C14_Witness ==
    /\ USE_MIDDLE_PROXY
    /\ \E s \in DOMAIN sess :
          /\ sess[s].pc = "mp_nonce_drain"
          /\ sess[s].clt_data.dc_idx = Len(UpstreamTable) - 1
          /\ sess[s].dc = "91.108.56.181"

(***************************************************************************)
(* Protocol violations of the middle proxy.                                 *)
(***************************************************************************)
(* do_middleproxy_handshake returned False after the connection was opened:
   an answer failed one of its tests, or the frame reader refused the frame *)
MiddleViolation(sn) ==
    /\ sn.pc = "closed"
    /\ sn.exc = ""
    /\ Passed(sn, "NONCE_SENT")

(* C15: when the middle-proxy handshake or the framed upstream stream meets *)
(* a protocol violation (bad RPC tag, wrong peer PID, key selector or       *)
(* schema mismatch, answer length other than 32, CRC mismatch, length out   *)
(* of bounds, sequence mismatch), both sides are torn down: the client      *)
(* socket and the upstream socket that is already open are both closed.     *)
C15_ViolationClosesBoth ==
    USE_MIDDLE_PROXY =>
        \A s \in DOMAIN sess :
            MiddleViolation(sess[s]) => sess[s].clt.closed /\ sess[s].tg.closed

(***************************************************************************)
(* The connects counter.                                                    *)
(***************************************************************************)
(* the users whose secret shows the magic and an index other than 0 in the
   handshake h, by their position in the configuration *)
ShownAccepting(h) ==
    {i \in 1..Len(USERS) :
        LET t == ShownTail(i, h)
        IN  /\ <<t[57], t[58], t[59], t[60]>> = <<239, 239, 239, 239>>
            /\ Abs(Int16LE(<<t[61], t[62]>>)) # 1}

(* the sessions whose handshake was read and accepted for user u *)
AcceptedFor(u) ==
    {s \in DOMAIN sess :
        /\ HandshakeRead(s)
        /\ ShownAccepting(sess[s].handshake) # {}
        /\ USERS[FirstOf(ShownAccepting(sess[s].handshake))].name = u}

ConnectsCounted ==
    \A u \in UserNames : stats[u].connects = Cardinality(AcceptedFor(u))

ConnectsStep ==
    \A u \in UserNames :
        /\ stats'[u].connects >= stats[u].connects
        /\ stats'[u].connects # stats[u].connects =>
              /\ stats'[u].connects = stats[u].connects + 1
              /\ \E s \in DOMAIN sess :
                    /\ sess[s].pc = "handshake"
                    /\ sess'[s].pc # "handshake"
                    /\ sess'[s].clt_data.ok
                    /\ sess'[s].clt_data.user = u

(* C18: the connects counter of a user is incremented exactly once per      *)
(* accepted client connection of that user, never for a rejected handshake  *)
(* and never more than once for the same session whatever happens           *)
(* afterwards (upstream failure, relay, teardown); it never decreases.      *)
C18_ConnectsOncePerSession == []ConnectsCounted /\ [][ConnectsStep]_vars

(* C18 witness: bob's session was counted once and has been torn down       *)
(* after relaying.                                                          *)
C18_Witness ==
    /\ stats["bob"].connects = 1
    /\ stats["alice"].connects = 0
    /\ \E s \in DOMAIN sess :
          /\ sess[s].clt_data.user = "bob"
          /\ \A d \in Dirs : sess[s].w[d] = "done"
          /\ sess[s].clt.closed /\ sess[s].tg.closed

(***************************************************************************)
(* The abridged reader on the frames a client sends.                        *)
(***************************************************************************)
(* the first bytes of the frames a client sends *)
CompactLenBytes == {0, 1, 126, 127, 128, 129, 254, 255}

(* the frames a client sends: a length byte L followed by L*4 bytes, by
   (L - 0x80)*4 bytes when L >= 0x80, or by a 3-byte length q and q*4 bytes *)
ClientFrames ==
    {BCat(BFromSeq(<<L>>), Run(4 * L, 85)) : L \in CompactLenBytes}
    \cup {BCat(BFromSeq(<<L>>), Run(4 * (L - 128), 85)) :
            L \in {x \in CompactLenBytes : x >= 128}}
    \cup {BCat(BFromSeq(<<L>> \o ToBytesLE(q, 3)), Run(4 * q, 85)) :
            L \in {127, 255}, q \in {1, 127, 300}}

(* the client sends a frame *)
CompactFeed ==
    /\ Len(sent) < MaxFrames
    /\ \E f \in ClientFrames :
          /\ pipe' = [pipe EXCEPT !.buf = BCat(@, f)]
          /\ sent' = Append(sent, [data |-> <<>>, status |-> "client", wire |-> f])
    /\ UNCHANGED <<sessionVars, wr_seq_no, rd_seq_no, reads, tampered>>

NextCompactRead == CompactFeed \/ CompactRead

SpecCompactRead == InitCompact /\ [][NextCompactRead]_vars

(* all bytes the client sent, and all bytes the reads consumed, in order *)
RECURSIVE WiresOf(_)
WiresOf(log) == IF log = <<>> THEN <<>> ELSE BCat(log[1].wire, WiresOf(Tail(log)))

RECURSIVE ConsumedBy(_)
ConsumedBy(log) ==
    IF log = <<>> THEN <<>>
    ELSE BCat(BCat(BFromSeq(log[1].header), log[1].data), ConsumedBy(Tail(log)))

(* the reads took the bytes of the stream in order, none twice, none skipped *)
ReadsFollowStream == BCat(ConsumedBy(reads), pipe.buf) = WiresOf(sent)

Len3(header) == header[2] + 256 * header[3] + 65536 * header[4]

(* C19 (as claimed): the abridged reader consumes one length byte L; only   *)
(* when L equals 0x7f does it consume 3 more little-endian length bytes;    *)
(* for every other value of L (0x00..0xff except 0x7f) the payload it reads *)
(* has exactly L*4 bytes.                                                   *)
C19_AsClaimed ==
    /\ ReadsFollowStream
    /\ \A k \in 1..Len(reads) :
          LET h == reads[k].header
          IN  /\ Len(h) \in {1, 4}
              /\ Len(h) = 4 <=> h[1] = 127
              /\ h[1] # 127 => BLen(reads[k].data) = h[1] * 4
              /\ h[1] = 127 => BLen(reads[k].data) = Len3(h) * 4

(* C19 (amended): the reader consumes one length byte L and drops its top   *)
(* bit (0x80 is subtracted when L >= 0x80); only when the result is 0x7f,   *)
(* that is for L = 0x7f and L = 0xff, does it consume 3 more little-endian  *)
(* length bytes q and read q*4 bytes; for every other L the payload has     *)
(* exactly (L mod 0x80)*4 bytes.                                            *)
C19_CompactReaderLength ==
    /\ ReadsFollowStream
    /\ \A k \in 1..Len(reads) :
          LET h == reads[k].header
              low == IF h[1] >= 128 THEN h[1] - 128 ELSE h[1]
          IN  /\ Len(h) \in {1, 4}
              /\ Len(h) = 4 <=> low = 127
              /\ low # 127 => BLen(reads[k].data) = low * 4
              /\ low = 127 => BLen(reads[k].data) = Len3(h) * 4

(* C19 witness: a frame starting with 0xff was read in the long form and a  *)
(* frame starting with 0x81 gave 4 bytes.                                   *)
C19_Witness ==
    /\ \E k \in 1..Len(reads) :
          reads[k].header = <<255, 44, 1, 0>> /\ BLen(reads[k].data) = 1200
    /\ \E k \in 1..Len(reads) :
          reads[k].header = <<129>> /\ BLen(reads[k].data) = 4

(***************************************************************************)
(* C13: the relay workers, chunk by chunk.                                  *)
(***************************************************************************)
OrderDcBytes == 3      \* the datacenter sends this many bytes
OrderCltBytes == 2     \* the client sends this many bytes after the handshake

OrderDcStream == [i \in 1..OrderDcBytes |-> IF i % 2 = 1 THEN 7 ELSE 200]

OrderCltStream == [i \in 1..OrderCltBytes |-> 16 * i + 1]

(* one session in direct mode, relaying; both peers have bytes to send *)
InitOrder ==
    /\ USERS = <<Alice, Bob>>
    /\ PREFER_IPV6 = FALSE
    /\ FAST_MODE \in BOOLEAN
    /\ USE_MIDDLE_PROXY = FALSE
    /\ \E sn \in EstablishedSessions(SecretAlice, {0}, 2, {OrderDcStream},
                                     OrderCltStream) :
          sess = <<sn>>
    /\ stats = update_stats(init_stats(USERS), "alice", 1, 0, 0)
    /\ CodecIdle

SpecOrder == InitOrder /\ [][NextRelay]_vars

(* the bytes read from the client during the relay, and what is left *)
CltUnread(sn) == sn.clt.inbuf \o sn.clt_todo

CltRead(sn) == SubSeq(OrderCltStream, 1, Len(OrderCltStream) - Len(CltUnread(sn)))

(* the bytes of the datacenter: read, received and not read, not yet sent *)
TgWhole(sn) == sn.tg_read \o sn.tg.inbuf \o sn.tg_todo

(* what the destination of each direction was handed is the source's bytes
   read so far, in their order, decrypted and encrypted again as one stream *)
DeliveredInOrder(sn) ==
    /\ sn.clt.out = ctr_crypt(sn.clt_data.encryptor,
                              ctr_crypt(sn.tg_decryptor, sn.tg_read))
    /\ CltRead(sn) \o CltUnread(sn) = OrderCltStream
    /\ sn.tg.out = DirectRndEnc(sn.rnd)
                      \o ctr_crypt(sn.tg_encryptor,
                                   ctr_crypt(sn.clt_data.decryptor, CltRead(sn)))

(* a worker whose await can return is not held back by the other worker *)
NotBlocked(s, d) ==
    /\ (/\ sess[s].w[d] = "read"
        /\ RdConn(sess[s], d).lost = ""
        /\ RdConn(sess[s], d).inbuf # <<>>) => ENABLED WorkerReadData(s, d)
    /\ (sess[s].w[d] = "drain" /\ WrConn(sess[s], d).lost = "")
          => ENABLED WorkerDrainOk(s, d)

(* a step leaves the datacenter's stream as it is; a worker awaiting drain
   takes nothing from its source and writes nothing; a write happens in
   the step of a read, which starts the await of drain *)
ChunkStep(s, d) ==
    /\ TgWhole(sess'[s]) = TgWhole(sess[s])
    /\ CltRead(sess'[s]) \o CltUnread(sess'[s]) = OrderCltStream
    /\ sess[s].w[d] \in {"drain", "eof_drain", "done"} =>
          /\ Len(RdConn(sess'[s], d).inbuf) >= Len(RdConn(sess[s], d).inbuf)
          /\ WrConn(sess'[s], d).out = WrConn(sess[s], d).out
    /\ WrConn(sess'[s], d).out # WrConn(sess[s], d).out =>
          /\ sess[s].w[d] = "read"
          /\ sess'[s].w[d] = "drain"
          /\ Len(RdConn(sess'[s], d).inbuf) < Len(RdConn(sess[s], d).inbuf)

ChunksInOrder ==
    \A s \in DOMAIN sess :
        /\ DeliveredInOrder(sess[s])
        /\ \A d \in Dirs : NotBlocked(s, d)

ChunkSteps == \A s \in DOMAIN sess : \A d \in Dirs : ChunkStep(s, d)

(* C13: in each direction the destination is handed the chunks read from    *)
(* the source in the order they were read, none dropped and none            *)
(* duplicated; a worker does not read again before the write of the         *)
(* previous chunk has been drained; the two directions run independently:   *)
(* a worker whose read or drain can complete takes its step wherever the    *)
(* other worker stands.                                                     *)
C13_RelayInOrder == []ChunksInOrder /\ [][ChunkSteps]_vars

(* C13 witness: two bytes of the datacenter were read and written, its      *)
(* third byte waits, and the client's two bytes were written upstream: both *)
(* workers await their drain at the same time.                              *)
C13_Witness ==
    /\ sess[1].tg_read = <<7, 200>>
    /\ sess[1].tg.inbuf = <<7>>
    /\ Len(sess[1].clt.out) = 2
    /\ CltRead(sess[1]) = <<17, 33>>
    /\ Len(sess[1].tg.out) = HANDSHAKE_LEN + 2
    /\ sess[1].w["tg2clt"] = "drain"
    /\ sess[1].w["clt2tg"] = "drain"

(***************************************************************************)
(* ProxyReqStreamReader.read and ProxyReqStreamWriter.write.                *)
(***************************************************************************)
RPC_PROXY_ANS == <<13, 218, 3, 68>>
RPC_CLOSE_EXT == <<162, 52, 182, 94>>
RPC_PROXY_REQ == <<238, 241, 206, 54>>
FLAGS == <<8, 16, 2, 64>>
REMOTE_IP_PORT == Fill(20, 65)
OUR_IP_PORT == Fill(20, 66)
EXTRA_SIZE == <<24, 0, 0, 0>>
PROXY_TAG == <<174, 38, 30, 219>>
FOUR_BYTES_ALIGNER == <<0, 0, 0>>

(* line 59: the configured tag; line 79: middle-proxy mode is on when it has
   16 bytes *)
AD_TAG == IF USE_MIDDLE_PROXY THEN Fill(16, 171) ELSE <<>>

(* a reader that hands on the data of every frame that does not close *)
ProxyReqReadAnyTag(data) ==
    IF Len(data) < 4 THEN [data |-> <<>>, eof |-> FALSE]
    ELSE IF Slice(data, 0, 4) = RPC_CLOSE_EXT THEN [data |-> <<>>, eof |-> TRUE]
    ELSE [data |-> Slice(data, 16, Len(data)), eof |-> FALSE]

(* lines 306-318: what read() makes of the frame data that self.stream.read
   returned; eof: feed_eof() was called *)
ProxyReqRead(data) ==
    IF Len(data) < 4 THEN [data |-> <<>>, eof |-> FALSE]
    ELSE IF Slice(data, 0, 4) = RPC_CLOSE_EXT THEN [data |-> <<>>, eof |-> TRUE]
    ELSE IF Slice(data, 0, 4) # RPC_PROXY_ANS THEN [data |-> <<>>, eof |-> FALSE]
    ELSE [data |-> Slice(data, 16, Len(data)), eof |-> FALSE]

(* a writer that leaves out the three bytes that align the header *)
ProxyReqWriteNoAligner(msg, OUT_CONN_ID) ==
    IF Len(msg) % 4 # 0
    THEN [status |-> "refused", wire |-> <<>>]
    ELSE [status |-> "written",
          wire |-> RPC_PROXY_REQ \o FLAGS \o OUT_CONN_ID \o REMOTE_IP_PORT
                     \o OUR_IP_PORT \o EXTRA_SIZE \o PROXY_TAG
                     \o <<Len(AD_TAG)>> \o AD_TAG \o msg]

(* lines 328-348: write(msg): full_msg as handed to self.stream.write, or the
   refusal (return 0) *)
ProxyReqWrite(msg, OUT_CONN_ID) ==
    IF Len(msg) % 4 # 0
    THEN [status |-> "refused", wire |-> <<>>]
    ELSE [status |-> "written",
          wire |-> RPC_PROXY_REQ \o FLAGS \o OUT_CONN_ID \o REMOTE_IP_PORT
                     \o OUR_IP_PORT \o EXTRA_SIZE \o PROXY_TAG
                     \o <<Len(AD_TAG)>> \o AD_TAG \o FOUR_BYTES_ALIGNER \o msg]

(***************************************************************************)
(* The relay in middle-proxy mode.  The upstream reader is                  *)
(* ProxyReqStreamReader over MTProtoFrameStreamReader over                  *)
(* CryptoWrappedStreamReader (CBC, block 16); the upstream writer is        *)
(* ProxyReqStreamWriter over MTProtoFrameStreamWriter over                  *)
(* CryptoWrappedStreamWriter (CBC, block 16); the client streams are the    *)
(* abridged codec over the CTR wrappers of handle_handshake.                *)
(***************************************************************************)
(* writer_tg.write(msg): lines 328-348, 279-290, 167-173 *)
UpstreamWrite(sn, msg, OUT_CONN_ID) ==
    LET p == ProxyReqWrite(msg, OUT_CONN_ID)
        c == CryptoWrite(sn.mp.encryptor, 16, FrameBytes(sn.mp.wr_seq_no, p.wire))
    IN  IF p.status # "written" THEN [status |-> p.status, sn |-> sn]
        ELSE IF c.status # "written"
        THEN [status |-> c.status, sn |-> [sn EXCEPT !.mp.wr_seq_no = @ + 1]]
        ELSE [status |-> "written",
              sn |-> [sn EXCEPT !.tg.out = @ \o c.wire,
                                !.mp.encryptor = c.encryptor,
                                !.mp.wr_seq_no = @ + 1]]

(* writer_clt.write(data): lines 251-268, 167-173 *)
ClientWrite(sn, data) ==
    LET w == CompactFrameWrite(BFromSeq(data))
        c == CryptoWrite(sn.writer_clt, 1, BToSeq(w.wire, BLen(w.wire)))
    IN  IF w.status # "written" THEN [status |-> w.status, sn |-> sn]
        ELSE [status |-> c.status,
              sn |-> [sn EXCEPT !.clt.out = @ \o c.wire, !.writer_clt = c.encryptor]]

(* lines 608-616: the worker of direction d after rd.read returned data, up
   to its next await.  The value write() returns is not looked at; an
   exception that line 617 does not name ends the worker. *)
WorkerWrote(w, d) ==
    IF w.status = "NameError" THEN WorkerExit(w.sn, d, "other")
    ELSE [w.sn EXCEPT !.w[d] = "drain"]

WorkerGot(sn, d, data, OUT_CONN_ID) ==
    IF data = <<>>
    THEN [SetWr(sn, d, IF WrConn(sn, d).lost = ""
                       THEN [WrConn(sn, d) EXCEPT !.eof_written = TRUE]
                       ELSE WrConn(sn, d))
          EXCEPT !.w[d] = "eof_drain"]
    ELSE CHOOSE after \in
            {WorkerWrote(w, d) :
               w \in {IF d = "tg2clt" THEN ClientWrite(sn, data)
                      ELSE UpstreamWrite(sn, data, OUT_CONN_ID)}} : TRUE

(* lines 614, 622: the counters after rd.read returned data *)
StatsGot(st, sn, d, data) ==
    IF data = <<>> THEN st
    ELSE IF d = "tg2clt" /\ ClientWrite(sn, data).status = "NameError"
    THEN WorkerFinally(update_stats(st, sn.clt_data.user, 0, 0, Len(data)),
                       sn.clt_data.user, "other")
    ELSE update_stats(st, sn.clt_data.user, 0, 0, Len(data))

(* random.randrange(0, 256) eight times *)
OutConnIds == {Fill(8, 3)}

(* the upstream reader's read as the frame reader over the CBC reader sees
   the bytes received *)
UpstreamFrame(sn) ==
    FrameReadOver([decryptor |-> sn.mp.decryptor, block_size |-> 16,
                   buf |-> sn.mp.rd_buf], sn.tg.inbuf, sn.mp.rd_seq_no)

(* line 607 returns in the worker reading the middle proxy *)
MpAnsRead(s) ==
    /\ USE_MIDDLE_PROXY
    /\ sess[s].w["tg2clt"] = "read"
    /\ sess[s].tg.lost = ""
    /\ \E r \in {UpstreamFrame(sess[s])} :
          /\ r.status # "blocked"
          /\ \E a \in {ProxyReqRead(r.data)} :
                \E sn1 \in {[sess[s] EXCEPT
                                !.tg.inbuf = r.raw, !.tg.eof = @ \/ r.eof \/ a.eof,
                                !.mp.rd_seq_no = r.seq_no, !.mp.rd_buf = r.rd.buf,
                                !.mp.decryptor = r.rd.decryptor]} :
                   /\ sess' = [sess EXCEPT ![s] = WorkerGot(sn1, "tg2clt", a.data, <<>>)]
                   /\ stats' = StatsGot(stats, sn1, "tg2clt", a.data)
                   /\ reads' = Append(reads, [frame |-> r.data, status |-> r.status,
                                              data |-> a.data, eof |-> a.eof])
    /\ UNCHANGED <<config, pipe, wr_seq_no, rd_seq_no, sent, tampered>>

(* the client reader's read as the abridged reader over the CTR reader sees
   the bytes received *)
ClientFrame(sn) ==
    CompactFrameRead(BFromSeq(Crypt(sn.reader_clt, sn.clt.inbuf)))

(* line 607 returns in the worker reading the client *)
MpReqRead(s) ==
    /\ USE_MIDDLE_PROXY
    /\ sess[s].w["clt2tg"] = "read"
    /\ sess[s].clt.lost = ""
    /\ \E r \in {ClientFrame(sess[s])} :
          /\ r.status = "ok"
          /\ \E used \in {Len(sess[s].clt.inbuf) - BLen(r.rest)},
                data \in {BToSeq(r.data, BLen(r.data))} :
                \E sn1 \in {[sess[s] EXCEPT
                                !.clt.inbuf = Slice(@, used, Len(@)),
                                !.reader_clt = Advance(@, Slice(sess[s].clt.inbuf, 0, used))]} :
                   /\ \E id \in OutConnIds :
                         sess' = [sess EXCEPT ![s] = WorkerGot(sn1, "clt2tg", data, id)]
                   /\ stats' = StatsGot(stats, sn1, "clt2tg", data)
    /\ UNCHANGED <<config, codecVars>>

(* line 607 raises IncompleteReadError: the stream ended, or the transport
   was closed on our side, before the frame awaited was whole *)
MpReadIncomplete(s, d) ==
    /\ USE_MIDDLE_PROXY
    /\ sess[s].w[d] = "read"
    /\ RdConn(sess[s], d).lost = ""
    /\ RdConn(sess[s], d).eof \/ RdConn(sess[s], d).closed
    /\ IF d = "tg2clt" THEN UpstreamFrame(sess[s]).status = "blocked"
       ELSE ClientFrame(sess[s]).status = "blocked"
    /\ sess' = [sess EXCEPT ![s] = WorkerRaise(sess[s], d, "IncompleteReadError")]
    /\ stats' = WorkerFinally(stats, sess[s].clt_data.user, "caught")
    /\ UNCHANGED <<config, codecVars>>

(* the peers send their next frame *)
MpTgSends(s) ==
    /\ sess[s].pc = "relay"
    /\ PeerOpen(sess[s].tg) /\ ~sess[s].tg.eof
    /\ sess[s].tg_todo # <<>>
    /\ sess' = [sess EXCEPT ![s].tg.inbuf = @ \o Head(sess[s].tg_todo),
                            ![s].tg_todo = Tail(@)]
    /\ UNCHANGED <<config, stats, codecVars>>

MpCltSends(s) ==
    /\ sess[s].pc = "relay"
    /\ PeerOpen(sess[s].clt) /\ ~sess[s].clt.eof
    /\ sess[s].clt_todo # <<>>
    /\ sess' = [sess EXCEPT ![s].clt.inbuf = @ \o Head(sess[s].clt_todo),
                            ![s].clt_todo = Tail(@)]
    /\ UNCHANGED <<config, stats, codecVars>>

MiddleWorkerStep(s, d) ==
    \/ WorkerStart(s, d)
    \/ d = "tg2clt" /\ MpAnsRead(s)
    \/ d = "clt2tg" /\ MpReqRead(s)
    \/ MpReadIncomplete(s, d)
    \/ WorkerDrainOk(s, d)
    \/ WorkerDrainFails(s, d)
    \/ WorkerEofDrainOk(s, d)
    \/ WorkerEofDrainFails(s, d)
    \/ WorkerReadFails(s, d)

MiddlePeerStep(s) ==
    \/ MpTgSends(s)
    \/ MpCltSends(s)
    \/ \E d \in Dirs : PeerEof(s, d) \/ PeerReset(s, d)

NextMiddleRelay ==
    \E s \in DOMAIN sess : MiddlePeerStep(s) \/ \E d \in Dirs : MiddleWorkerStep(s, d)

(***************************************************************************)
(* The peers of a session in middle-proxy mode.                             *)
(***************************************************************************)
MaxAnswers == 2      \* the middle proxy sends at most this many frames
MaxRequests == 1     \* the client sends this many frames

(* the session as handle_client leaves it when the middle proxy answered
   both frames of the handshake well *)
MiddleEstablished ==
    {MpAfterHandshakeAns(d,
        FrameReadOver(CryptoReader(d.mp.decryptor, 16),
                      cbc_encrypt(ServerEncryptor(d),
                                  FrameBytes(START_SEQ_NO + 1, HandshakeAnsGood)),
                      d.mp.rd_seq_no)) :
       d \in {MpAfterHandshakeDrain(MpAfterNonceAns(c,
                  FrameReadResult(FrameBare(START_SEQ_NO, NonceAnsGood(c)),
                                  c.mp.rd_seq_no))) :
                c \in {MpAfterNonceDrain(MpAfterConnect(h, ts, MiddleNonce(0))) :
                         ts \in CryptoTimes,
                         h \in {AfterHandshakeRead(NewSession(
                                   [NewConn EXCEPT !.inbuf =
                                      ClientHandshake(SecretAlice, 0,
                                                      MAGIC_VAL_TO_CHECK, 2)]))}}}}

(* the messages the middle proxy sends during the relay: answers with
   bytes for the client, and after them an answer with no bytes, the closing
   message, a message with another tag, a message with a tag one bit away
   from RPC_PROXY_ANS, or the empty message *)
AnsConnId == Fill(8, 9)

ProxyAns(conn_data) == RPC_PROXY_ANS \o <<0, 0, 0, 0>> \o AnsConnId \o conn_data

AnswerData(k) == [i \in 1..(4 * k) |-> 16 * k + i]

LastMsgs ==
    {ProxyAns(<<>>),
     RPC_CLOSE_EXT \o AnsConnId,
     RPC_PROXY_REQ \o <<0, 0, 0, 0>> \o AnsConnId \o <<222, 173, 190, 239>>,
     <<13, 218, 3, 69>> \o <<0, 0, 0, 0>> \o AnsConnId \o <<222, 173, 190, 239>>,
     <<>>}

AnswerSeqs ==
    {[i \in 1..k |-> ProxyAns(AnswerData(i))] : k \in 0..MaxAnswers}
    \cup {[i \in 1..k |-> ProxyAns(AnswerData(i))] \o <<m>> :
            k \in 0..(MaxAnswers - 1), m \in LastMsgs}

(* the frames of msgs as the middle proxy sends them: numbered from seq_no
   and encrypted in one CBC chain *)
RECURSIVE PeerFrames(_, _, _)
PeerFrames(c, seq_no, msgs) ==
    IF msgs = <<>> THEN <<>>
    ELSE LET wire == cbc_encrypt(c, FrameBytes(seq_no, msgs[1]))
         IN  <<wire>> \o PeerFrames(CbcAdvance(c, wire), seq_no + 1, Tail(msgs))

(* the payloads the client sends *)
RequestData == <<17, 18, 19, 20>>

(* the abridged frames of the client, encrypted in its CTR stream *)
RECURSIVE ClientWires(_, _)
ClientWires(c, n) ==
    IF n = 0 THEN <<>>
    ELSE LET frame == <<Len(RequestData) \div 4>> \o RequestData
         IN  <<ctr_crypt(c, frame)>> \o ClientWires(Advance(c, frame), n - 1)

InitMiddleRelay ==
    /\ USERS = <<Alice, Bob>>
    /\ PREFER_IPV6 = FALSE
    /\ FAST_MODE = FALSE
    /\ USE_MIDDLE_PROXY = TRUE
    /\ \E sn \in MiddleEstablished, msgs \in AnswerSeqs :
          sess = <<[sn EXCEPT
                      !.tg_todo = PeerFrames(sn.mp.decryptor, sn.mp.rd_seq_no, msgs),
                      !.clt_todo = ClientWires(sn.reader_clt, MaxRequests)]>>
    /\ stats = update_stats(init_stats(USERS), "alice", 1, 0, 0)
    /\ CodecIdle

SpecMiddleRelay == InitMiddleRelay /\ [][NextMiddleRelay]_vars


(* the tag of a frame's data *)
AnsTag(frame) == Slice(frame, 0, 4)

(* the abridged frames of the data the reads returned, one after the other *)
RECURSIVE ForwardedPlain(_)
ForwardedPlain(log) ==
    IF log = <<>> THEN <<>>
    ELSE IF log[1].data = <<>> THEN ForwardedPlain(Tail(log))
    ELSE <<Len(log[1].data) \div 4>> \o log[1].data \o ForwardedPlain(Tail(log))

(* C16: ProxyReqStreamReader.read, given a full frame from the CBC-wrapped  *)
(* frame reader: with the tag RPC_CLOSE_EXT it signals EOF and returns no   *)
(* data; with the tag RPC_PROXY_ANS it returns the frame's bytes from       *)
(* offset 16 on; with any other tag it returns no data, the worker reads no *)
(* further frame and ends with the client connection closed; the client is  *)
(* written the abridged frames of the RPC_PROXY_ANS payloads and no byte of *)
(* another frame.                                                           *)
C16_ProxyAnswerRead ==
    \A s \in DOMAIN sess :
        /\ \A k \in 1..Len(reads) :
              LET e == reads[k]
              IN  Len(e.frame) >= 4 =>
                     /\ AnsTag(e.frame) = RPC_CLOSE_EXT =>
                           e.eof /\ e.data = <<>> /\ sess[s].tg.eof
                     /\ AnsTag(e.frame) = RPC_PROXY_ANS =>
                           ~e.eof /\ e.data = SubSeq(e.frame, 17, Len(e.frame))
                     /\ AnsTag(e.frame) \notin {RPC_CLOSE_EXT, RPC_PROXY_ANS} =>
                           /\ e.data = <<>>
                           /\ k = Len(reads)
                           /\ sess[s].w["tg2clt"] \in {"eof_drain", "done"}
                           /\ sess[s].w["tg2clt"] = "done" => sess[s].clt.closed
        /\ sess[s].clt.out = ctr_crypt(sess[s].clt_data.encryptor, ForwardedPlain(reads))

(* C16 witness: an RPC_PROXY_ANS frame was read and its 4 bytes of data     *)
(* written to the client in a frame of 5 bytes; then a frame with the tag   *)
(* RPC_PROXY_REQ was read, nothing more was written, and the worker ended   *)
(* with the client connection closed.                                       *)
C16_Witness ==
    /\ Len(reads) = 2
    /\ Len(reads[1].frame) = 20
    /\ AnsTag(reads[1].frame) = RPC_PROXY_ANS
    /\ reads[1].data = <<17, 18, 19, 20>>
    /\ Len(reads[2].frame) = 20
    /\ AnsTag(reads[2].frame) = RPC_PROXY_REQ
    /\ Len(sess[1].clt.out) = 5
    /\ sess[1].w["tg2clt"] = "done"
    /\ sess[1].how["tg2clt"] = "eof"
    /\ sess[1].clt.closed


(***************************************************************************)
(* connect_reader_to_writer over the writers of a session in middle-proxy   *)
(* mode, with a reader that returns any chunk: the readers of the program   *)
(* return whole words only.                                                 *)
(***************************************************************************)
(* the chunks rd.read returns: whole words, and 5 and 2 bytes *)
AnyChunks == {<<1, 2, 3, 4>>, <<1, 2, 3, 4, 5, 6, 7, 8>>, <<1, 2, 3, 4, 5>>, <<1, 2>>}

InitAnyChunk ==
    /\ USERS = <<Alice, Bob>>
    /\ PREFER_IPV6 = FALSE
    /\ FAST_MODE = FALSE
    /\ USE_MIDDLE_PROXY = TRUE
    /\ \E sn \in MiddleEstablished : sess = <<sn>>
    /\ stats = update_stats(init_stats(USERS), "alice", 1, 0, 0)
    /\ CodecIdle

(* line 607 returns a chunk; lines 613-616 up to the await.  sent logs the
   chunk and whether wr.write handed bytes to the connection. *)
WorkerReadAny(s, d) ==
    /\ sess[s].w[d] = "read"
    /\ Len(sent) < MaxFrames
    /\ \E data \in AnyChunks, id \in OutConnIds :
          \E after \in {WorkerGot(sess[s], d, data, id)} :
             /\ sess' = [sess EXCEPT ![s] = after]
             /\ stats' = StatsGot(stats, sess[s], d, data)
             /\ sent' = Append(sent, [dir |-> d, data |-> data,
                                      written |-> WrConn(after, d).out
                                                    # WrConn(sess[s], d).out])
    /\ UNCHANGED <<config, pipe, wr_seq_no, rd_seq_no, reads, tampered>>

NextAnyChunk ==
    \E s \in DOMAIN sess, d \in Dirs :
        \/ WorkerStart(s, d)
        \/ WorkerReadAny(s, d)
        \/ WorkerDrainOk(s, d)
        \/ WorkerDrainFails(s, d)
        \/ PeerReset(s, d)

SpecAnyChunk == InitAnyChunk /\ [][NextAnyChunk]_vars

(* C17: a write whose payload is not a whole number of words (of blocks for *)
(* the crypto wrapper) is refused, nothing being written to the underlying  *)
(* stream, and the session is then treated as a protocol violation: the     *)
(* worker takes no further chunk, and both sides are closed when it ends.   *)
C17_RefusedWriteEndsSession ==
    \A s \in DOMAIN sess :
        \A k \in 1..Len(sent) :
            Len(sent[k].data) % 4 # 0 =>
                /\ ~sent[k].written
                /\ \A j \in (k + 1)..Len(sent) : sent[j].dir # sent[k].dir
                /\ sess[s].w[sent[k].dir] # "read"
                /\ sess[s].w[sent[k].dir] = "done" =>
                      sess[s].clt.closed /\ sess[s].tg.closed


(***************************************************************************)
(* CryptoWrappedStreamReader under any sequence of read and readexactly.    *)
(* pipe holds the reader (rd), the bytes of the underlying stream not yet   *)
(* consumed (buf) and the block size; reads logs the calls.                 *)
(***************************************************************************)
MaxBlocks == 2       \* the underlying stream holds this many blocks of 16 bytes
MaxCalls == 3        \* the reader is called at most this many times

(* lines 131-143: read(n) on the reader rd over the bytes raw of the
   underlying stream, whose read returns k bytes.  Line 133 names the buffer
   and line 134 empties that same object, so what is returned is empty; line
   141 adds a coroutine that was not awaited to bytes, which raises
   TypeError. *)
CryptoRead(rd, raw, n, k) ==
    IF rd.buf # <<>>
    THEN [status |-> "ok", data |-> <<>>, rd |-> [rd EXCEPT !.buf = <<>>], raw |-> raw]
    ELSE LET readed == Slice(raw, 0, k)
             needed_till_full_block == (-Len(readed)) % rd.block_size
         IN  IF needed_till_full_block > 0
             THEN [status |-> "TypeError", data |-> <<>>, rd |-> rd,
                   raw |-> Slice(raw, k, Len(raw))]
             ELSE [status |-> "ok", data |-> CipherDecrypt(rd.decryptor, readed),
                   rd |-> [rd EXCEPT !.decryptor = AfterDecrypt(@, readed)],
                   raw |-> Slice(raw, k, Len(raw))]

(* what the peer encrypted *)
StreamPlain == [i \in 1..(16 * MaxBlocks) |-> (7 * i + 3) % 256]

StreamKey == [i \in 1..KEY_LEN |-> (5 * i + 1) % 256]

StreamIv == [i \in 1..IV_LEN |-> (3 * i + 2) % 256]

(* the cipher of the stream: CTR under block size 1, CBC under block size 16 *)
StreamCipher(block_size) ==
    IF block_size = 1 THEN create_aes_ctr(StreamKey, StreamIv)
    ELSE create_aes_cbc(StreamKey, StreamIv)

BlockSizes == {1, 16}

(* the sizes read and readexactly are called with *)
CallSizes == {1, 4, 16, 20}

InitCryptoRead ==
    /\ SessionsIdle
    /\ \E b \in BlockSizes :
          pipe = [buf |-> CipherEncrypt(StreamCipher(b), StreamPlain), eof |-> FALSE,
                  rd |-> CryptoReader(StreamCipher(b), b)]
    /\ wr_seq_no = 0 /\ rd_seq_no = 0
    /\ sent = <<>> /\ reads = <<>> /\ tampered = FALSE

(* no call has raised *)
ReaderUsable ==
    /\ Len(reads) < MaxCalls
    /\ reads # <<>> => reads[Len(reads)].status = "ok"

(* data = await reader.readexactly(n) *)
CryptoReadExactlyCall ==
    /\ ReaderUsable
    /\ \E n \in CallSizes :
          \E r \in {CryptoReadExactly(pipe.rd, pipe.buf, n)} :
             /\ r.status = "ok"
             /\ pipe' = [pipe EXCEPT !.buf = r.raw, !.rd = r.rd]
             /\ reads' = Append(reads, [call |-> "readexactly", n |-> n,
                                        buffered |-> Len(pipe.rd.buf),
                                        asked |-> Len(pipe.buf) - Len(r.raw),
                                        status |-> r.status, data |-> r.data])
    /\ UNCHANGED <<sessionVars, wr_seq_no, rd_seq_no, sent, tampered>>

(* data = await reader.read(n); the underlying read returns up to n bytes *)
CryptoReadCall ==
    /\ ReaderUsable
    /\ pipe.buf # <<>>
    /\ \E n \in CallSizes :
          \E k \in {j \in CallSizes : j <= Min(n, Len(pipe.buf))} :
             \E r \in {CryptoRead(pipe.rd, pipe.buf, n, k)} :
                /\ pipe' = [pipe EXCEPT !.buf = r.raw, !.rd = r.rd]
                /\ reads' = Append(reads, [call |-> "read", n |-> n,
                                           buffered |-> Len(pipe.rd.buf),
                                           asked |-> Len(pipe.buf) - Len(r.raw),
                                           status |-> r.status, data |-> r.data])
    /\ UNCHANGED <<sessionVars, wr_seq_no, rd_seq_no, sent, tampered>>

NextCryptoRead == CryptoReadExactlyCall \/ CryptoReadCall

SpecCryptoRead == InitCryptoRead /\ [][NextCryptoRead]_vars

(* all data the calls returned, in order *)
RECURSIVE Returned(_)
Returned(log) == IF log = <<>> THEN <<>> ELSE log[1].data \o Returned(Tail(log))

Consumed == Len(StreamPlain) - Len(pipe.buf)

(* C20: under any sequence of read(n) and readexactly(n) calls the number   *)
(* of bytes consumed from the underlying stream is a multiple of the block  *)
(* size; readexactly asks the stream for the smallest block-aligned amount  *)
(* covering what is missing and keeps the decrypted surplus; the data       *)
(* returned, concatenated and followed by the buffered surplus, is the      *)
(* decryption of the bytes consumed, a prefix of what the peer encrypted.   *)
C20_CryptoReaderLossless ==
    /\ Consumed % pipe.rd.block_size = 0
    /\ \A k \in 1..Len(reads) :
          reads[k].call = "readexactly" =>
             LET missing == IF reads[k].n > reads[k].buffered
                            THEN reads[k].n - reads[k].buffered ELSE 0
             IN  /\ reads[k].asked % pipe.rd.block_size = 0
                 /\ reads[k].asked >= missing
                 /\ reads[k].asked - missing < pipe.rd.block_size
                 /\ Len(reads[k].data) = reads[k].n
    /\ Returned(reads) \o pipe.rd.buf = SubSeq(StreamPlain, 1, Consumed)

(***************************************************************************)
(* A whole session, from the client's first byte to the end of the relay,   *)
(* in direct and in middle-proxy mode.  The client sends its first payload  *)
(* right behind its handshake, before the proxy has connected upstream.     *)
(***************************************************************************)
PipeRequests == 2    \* the client sends this many payloads
PipeAnswers == 1     \* the upstream sends this many payloads

(* the abridged frames of the client: the k-th carries 2k-1 words; the      *)
(* first has the short header, the second the long one, the third the       *)
(* short one with the top bit set, and so on in turn *)
PipePayload(k) == [i \in 1..(4 * (2 * k - 1)) |-> (32 * k + i) % 256]

PipeHeader(k) ==
    IF k % 3 = 1 THEN <<2 * k - 1>>
    ELSE IF k % 3 = 2 THEN <<127>> \o ToBytesLE(2 * k - 1, 3)
    ELSE <<2 * k - 1 + 128>>

PipeFrame(k) == PipeHeader(k) \o PipePayload(k)

(* what the client sends in direct mode: bytes that mean nothing here *)
PipeByte(k) == 16 * k + 1

(* the k-th thing the client sends: a frame, or in direct mode a byte *)
PipeClientMsg(k) == IF USE_MIDDLE_PROXY THEN PipeFrame(k) ELSE PipeByte(k)

(* the client's handshake and the cipher it goes on encrypting with: the
   one handle_handshake makes the session's decryptor *)
PipeHandshake == ClientHandshake(SecretAlice, 0, MAGIC_VAL_TO_CHECK, 2)

PipeClientCipher == handle_handshake(<<Alice, Bob>>, PipeHandshake).decryptor

(* the client's first payload as it is on the wire *)
PipeEarlyFrame == ctr_crypt(PipeClientCipher, PipeFrame(1))

PipeEarlyByte == ctr_crypt(PipeClientCipher, <<PipeByte(1)>>)

PipeRefused == ClientHandshake(SecretMallory, 0, MAGIC_VAL_TO_CHECK, 2)

PipeOpenings ==
    {[NewConn EXCEPT !.inbuf = PipeHandshake \o PipeEarlyFrame],
     [NewConn EXCEPT !.inbuf = PipeHandshake \o PipeEarlyByte],
     [NewConn EXCEPT !.inbuf = PipeRefused \o <<1, 2, 3, 4, 5>>]}

(* the messages the middle proxy sends in the relay: answers with bytes for
   the client, then an answer whose payload is no whole number of words; in
   direct mode the datacenter sends bytes *)
PipeUpstreamMsgs ==
    IF USE_MIDDLE_PROXY
    THEN [i \in 1..PipeAnswers |-> ProxyAns(AnswerData(i))]
           \o <<ProxyAns(<<222, 173, 190, 239, 1>>)>>
    ELSE [i \in 1..PipeAnswers |-> 7]

(* the frame of msg as a peer sends it: padded with pad words as the frame
   writer pads, or, where the length of msg leaves no room for words, with
   zero bytes up to the CBC block *)
PipePeerFrame(seq_no, msg) ==
    IF Len(msg) % 4 = 0 THEN FrameBytes(seq_no, msg)
    ELSE FrameBare(seq_no, msg) \o Fill((-(Len(msg) + 12)) % CBC_PADDING, 0)

InitPipeline ==
    /\ USERS = <<Alice, Bob>>
    /\ PREFER_IPV6 = FALSE
    /\ FAST_MODE \in BOOLEAN
    /\ USE_MIDDLE_PROXY \in BOOLEAN
    /\ USE_MIDDLE_PROXY => ~FAST_MODE
    /\ stats = init_stats(USERS)
    /\ \E clt \in PipeOpenings :
          /\ USE_MIDDLE_PROXY => clt.inbuf # PipeHandshake \o PipeEarlyByte
          /\ ~USE_MIDDLE_PROXY => clt.inbuf # PipeHandshake \o PipeEarlyFrame
          /\ sess = <<[NewSession(clt) EXCEPT
                      !.tg_todo = PipeUpstreamMsgs,
                      !.clt_todo = [i \in 1..(PipeRequests - 1) |-> PipeClientMsg(i + 1)]]>>
    /\ CodecIdle

(* the middle proxy sends its next message: a frame with the sequence
   number it has reached, encrypted in its CBC chain, which stands where
   the session's decryptor stands once all bytes received were decrypted *)
PipeTgSends(s) ==
    /\ USE_MIDDLE_PROXY
    /\ sess[s].pc = "relay"
    /\ PeerOpen(sess[s].tg) /\ ~sess[s].tg.eof
    /\ sess[s].tg_todo # <<>>
    /\ sess[s].tg.inbuf = <<>>
    /\ \E frame \in {PipePeerFrame(sess[s].mp.rd_seq_no, Head(sess[s].tg_todo))} :
          \E wire \in {cbc_encrypt(sess[s].mp.decryptor, frame)} :
             sess' = [sess EXCEPT ![s].tg.inbuf = wire, ![s].tg_todo = Tail(@)]
    /\ UNCHANGED <<config, stats, codecVars>>

(* the client sends its next frame, encrypted in its CTR stream, which
   stands where the session's decryptor stands once all it sent was read *)
PipeCltSends(s) ==
    /\ USE_MIDDLE_PROXY
    /\ sess[s].pc = "relay"
    /\ PeerOpen(sess[s].clt) /\ ~sess[s].clt.eof
    /\ sess[s].clt_todo # <<>>
    /\ sess[s].clt.inbuf = <<>>
    /\ \E wire \in {ctr_crypt(sess[s].reader_clt, Head(sess[s].clt_todo))} :
          sess' = [sess EXCEPT ![s].clt.inbuf = wire, ![s].clt_todo = Tail(@)]
    /\ UNCHANGED <<config, stats, codecVars>>

PipeMiddleRelay ==
    \E s \in DOMAIN sess :
        \/ PipeTgSends(s)
        \/ PipeCltSends(s)
        \/ \E d \in Dirs : PeerEof(s, d) \/ PeerReset(s, d) \/ MiddleWorkerStep(s, d)

NextPipeline ==
    \/ Next
    \/ \E s \in DOMAIN sess : MiddleStep(s)
    \/ ~USE_MIDDLE_PROXY /\ NextRelay
    \/ USE_MIDDLE_PROXY /\ PipeMiddleRelay

SpecPipeline == InitPipeline /\ [][NextPipeline]_vars

(***************************************************************************)
(* What a step of a session shows of the writers' work.                     *)
(***************************************************************************)
(* the bytes the step added to what the upstream writer was handed *)
UpstreamGrown(s) == Len(sess'[s].tg.out) - Len(sess[s].tg.out)

ClientGrown(s) == Len(sess'[s].clt.out) - Len(sess[s].clt.out)

(* the octets the step counted for the session's user: len(data) of line 614 *)
OctetsCounted(s) ==
    stats'[sess[s].clt_data.user].octets - stats[sess[s].clt_data.user].octets

(* the worker of direction d passed data to wr.write in the step *)
Forwards(s, d) == sess[s].w[d] = "read" /\ sess'[s].w[d] = "drain"

(* the frame writer over the CBC writer was called in the step *)
FramesForCbc(s) ==
    /\ sess'[s].mp.wr_seq_no # sess[s].mp.wr_seq_no
    /\ sess'[s].mp.encryptor # <<>>

(* the length of the proxy-req header in front of the client's payload *)
ProxyReqHeaderLen == Len(ProxyReqWrite(<<>>, Fill(8, 0)).wire)

CbcAligned(s) ==
    /\ FramesForCbc(s) =>
          /\ UpstreamGrown(s) > 0
          /\ UpstreamGrown(s) % CBC_PADDING = 0
          /\ SubSeq(sess'[s].tg.out, 1, Len(sess[s].tg.out)) = sess[s].tg.out
    /\ Forwards(s, "clt2tg") =>
          /\ OctetsCounted(s) > 0
          /\ OctetsCounted(s) % 4 = 0
          /\ (ProxyReqHeaderLen + OctetsCounted(s)) % 4 = 0
          /\ sess'[s].mp.wr_seq_no = sess[s].mp.wr_seq_no + 1
          /\ UpstreamGrown(s) >= ProxyReqHeaderLen + OctetsCounted(s) + 12
          /\ UpstreamGrown(s) < ProxyReqHeaderLen + OctetsCounted(s) + 12 + CBC_PADDING
    /\ Forwards(s, "tg2clt") =>
          /\ OctetsCounted(s) > 0
          /\ OctetsCounted(s) % 4 = 0
          /\ ClientGrown(s) > OctetsCounted(s)
    /\ \A d \in Dirs : sess'[s].how[d] # "other"
    /\ \A k \in 1..Len(reads') : Len(reads'[k].data) % 4 = 0

(* C21: in middle-proxy mode every write that reaches the CBC writer has a   *)
(* length that is a multiple of 16, for the RPC_HANDSHAKE frame and for      *)
(* every relayed client payload: the payloads of the abridged reader are     *)
(* multiples of 4, the proxy-req header keeps the message a multiple of 4    *)
(* and the frame writer pads the record to 16, so the CBC writer never       *)
(* refuses a write; and every answer payload handed to the abridged writer   *)
(* is a multiple of 4, so that writer never takes its misaligned branch.     *)
C21_CbcWritesAligned ==
    [][USE_MIDDLE_PROXY => \A s \in DOMAIN sess : CbcAligned(s)]_vars

(* a middle-proxy session whose handshake frame and whose client payloads,
   all of them, went through the CBC writer, and which handed an answer of
   the middle proxy to the abridged writer *)
C21_Witness ==
    /\ USE_MIDDLE_PROXY
    /\ sess[1].pc = "relay"
    /\ sess[1].clt_todo = <<>>
    /\ sess[1].mp.wr_seq_no = START_SEQ_NO + 2 + PipeRequests
    /\ Len(sess[1].tg.out) > PipeRequests * ProxyReqHeaderLen
    /\ Len(sess[1].tg.out) % CBC_PADDING = 0
    /\ sess[1].clt.out # <<>>
    /\ \E k \in 1..Len(reads) : reads[k].data # <<>>

(***************************************************************************)
(* The order of the steps of a session.                                     *)
(***************************************************************************)
(* the number of bytes the upstream handshake puts on the connection: the
   64-byte nonce, or the RPC_NONCE and RPC_HANDSHAKE frames of 48 bytes each *)
UpstreamHandshakeLen == IF USE_MIDDLE_PROXY THEN 48 + 48 ELSE HANDSHAKE_LEN

Scheduled(sn) == \E d \in Dirs : sn.w[d] # "none"

(* what holds of a session in every state *)
StepsInOrder(sn) ==
    /\ sn.tg_opened => sn.handshake # <<>> /\ sn.clt_data.ok
    /\ sn.tg.out # <<>> => sn.tg_opened
    /\ Scheduled(sn) =>
          /\ sn.pc = "relay"
          /\ sn.tg_opened
          /\ Len(sn.tg.out) >= UpstreamHandshakeLen
          /\ USE_MIDDLE_PROXY => sn.mp.path = MiddlePath
    /\ Len(sn.tg.out) > UpstreamHandshakeLen => sn.w["clt2tg"] \notin {"none", "new"}
    /\ (sn.handshake # <<>> /\ sn.w["clt2tg"] \in {"none", "new"}) =>
          \E clt \in PipeOpenings : IsPrefix(clt.inbuf, sn.handshake \o sn.clt.inbuf)

(* what holds of every step of a session: the step that opens the upstream
   connection is the one that accepted the client's handshake; the step that
   schedules the workers follows the drain of the upstream handshake, whose
   answers, in middle-proxy mode, were valid; the upstream is written the
   handshake first and, once that is complete, what the worker reading the
   client forwards *)
StepInOrder(s) ==
    /\ (~sess[s].tg_opened /\ sess'[s].tg_opened) =>
          /\ sess[s].pc = "handshake"
          /\ sess'[s].pc \in {"connect", "mp_connect"}
          /\ Matching(sess'[s].handshake) # {}
    /\ (~Scheduled(sess[s]) /\ Scheduled(sess'[s])) =>
          /\ sess[s].pc \in {"tg_drain", "mp_hs_read"}
          /\ sess'[s].pc = "relay"
          /\ Len(sess[s].tg.out) = UpstreamHandshakeLen
          /\ sess'[s].tg.out = sess[s].tg.out
          /\ USE_MIDDLE_PROXY =>
                NonceAnswerValid(sess'[s]) /\ HandshakeAnswerValid(sess'[s])
    /\ IsPrefix(sess[s].tg.out, sess'[s].tg.out)
    /\ sess'[s].tg.out # sess[s].tg.out =>
          \/ /\ sess[s].pc \in {"connect", "mp_connect", "mp_nonce_read"}
             /\ Len(sess'[s].tg.out) <= UpstreamHandshakeLen
          \/ /\ Forwards(s, "clt2tg")
             /\ Len(sess[s].tg.out) >= UpstreamHandshakeLen

(* C22: within a session the upstream connection is opened only after the   *)
(* client handshake was accepted, the two relay workers are started only    *)
(* after the upstream handshake succeeded, and on the upstream connection   *)
(* the handshake bytes (the 64-byte nonce in direct mode, the RPC_NONCE and *)
(* RPC_HANDSHAKE frames in middle-proxy mode) are written and drained       *)
(* before any relayed client payload: no client byte reaches the upstream   *)
(* ahead of the handshake or between its bytes.                             *)
C22_PipelineOrdered ==
    /\ [](\A s \in DOMAIN sess : StepsInOrder(sess[s]))
    /\ [][\A s \in DOMAIN sess : StepInOrder(s)]_vars

(* a session in direct mode whose client sent its first payload behind its
   handshake, and which has written the upstream the nonce and then all the
   client's payloads *)
C22_Witness ==
    /\ ~USE_MIDDLE_PROXY
    /\ sess[1].pc = "relay"
    /\ sess[1].clt_todo = <<>>
    /\ sess[1].clt.inbuf = <<>>
    /\ Len(sess[1].tg.out) = UpstreamHandshakeLen + PipeRequests

=============================================================================
